---- MODULE Spec2Model ----
(***************************************************************************)
(* NeoCalc: the local line-by-line evaluator (utils/evaluator), the AI     *)
(* formula validator, the reconciliation effect, the LLM call, the         *)
(* auto-save effect and the file handling of NeoCalcUI.jsx, and addLog of  *)
(* lib/db.                                                                 *)
(*                                                                         *)
(* Representation.  A JavaScript string is a sequence of one-character     *)
(* strings; a document is the sequence of its lines (text.split('\n')),    *)
(* line index idx of the code being element idx+1 of the sequence.  A      *)
(* JavaScript value is a record [k, n]: k = "num" with the number n,       *)
(* "null", "undef", or "err" (an exception thrown by the evaluation).      *)
(* Numbers are integers: the modelled alphabet has no '.', '%' or single   *)
(* '/', so no non-integer and no non-finite number can arise.  A JS object *)
(* used as a map is a sequence of [name, val] pairs in insertion order     *)
(* (Object.keys order for non-numeric keys), or a function whose DOMAIN is *)
(* the set of keys when it is keyed by line index.                         *)
(***************************************************************************)
EXTENDS Integers, Sequences, FiniteSets, TLC

VARIABLES
  text,             \* useState text, as its lines
  aiLogic,          \* useState aiLogic
  computedResults,  \* useState computedResults
  loading,          \* useState loading
  serverStatus,     \* useState serverStatus
  lastOutput,       \* useState lastOutput
  reconTimer,       \* the pending 100 ms timeouts of the reconciliation effect
  llmTimer,         \* the pending 800 ms timeouts of the LLM effect
  calls,            \* the invocations of callLocalLLM, by order of start
  edits,            \* number of handleTextChange events so far
  pc,               \* position of the reconciliation callback
  localResults,     \* its const localResults
  finalResults,     \* its const finalResults
  currentValues,    \* its const currentValues
  variableValues,   \* its const variableValues
  changed,          \* its let changed
  iterations,       \* its let iterations
  evalText,         \* evaluateDocument: the lines of its argument
  evalI,            \* its loop index i
  evalSt,           \* its mathScope, fullScope, variableLines, lineValues, lineTags, results
  evalRunning,      \* an invocation is between entry and return
  evalReturned,     \* the value the invocation returned, none while it runs
  runs,             \* number of invocations so far
  firstText,        \* argument of the first invocation
  firstReturned,    \* value the first invocation returned
  otherRuns,        \* completed invocations on another text since the first
  hasUnsavedChanges, \* useState hasUnsavedChanges
  saveStatus,       \* useState saveStatus
  saveTimer,        \* the pending 2 s timeouts of the auto-save effect
  saveTimeoutRef,   \* saveTimeoutRef.current, the timeout the effect set last
  saveCleanup,      \* the last run of the auto-save effect returned its cleanup
  saving,           \* the auto-save callbacks awaiting saveFile
  stored,           \* the row of the current file in db.files
  logs,             \* the ids of the rows of db.logs
  nextLogId,        \* the auto-incremented key db.logs gives the next row
  logCalls,         \* the invocations of addLog, by order of start
  files,            \* useState files, as the ids of the files
  tabs,             \* useState tabs
  currentFileId,    \* useState currentFileId
  modalConfig,      \* useState modalConfig
  closing,          \* the closeTab invocations awaiting getFile
  deleting,         \* the onConfirm invocations awaiting deleteFile
  dbFiles           \* the ids of the rows of db.files

uiVars == <<loading, serverStatus, lastOutput, reconTimer, llmTimer, calls, edits>>
reconVars == <<pc, localResults, finalResults, currentValues, variableValues, changed, iterations>>
evalVars == <<evalText, evalI, evalSt, evalRunning, evalReturned, runs, firstText, firstReturned,
              otherRuns>>
saveVars == <<hasUnsavedChanges, saveStatus, saveTimer, saveTimeoutRef, saveCleanup, saving, stored>>
logVars == <<logs, nextLogId, logCalls>>
fileVars == <<files, tabs, currentFileId, modalConfig, closing, deleting, dbFiles>>
storeVars == <<saveVars, logVars, fileVars>>
vars == <<text, aiLogic, computedResults, uiVars, reconVars, evalVars, storeVars>>

\* ------------------------------------------------------------------------
\* JavaScript values
\* ------------------------------------------------------------------------
Num(n) == [k |-> "num", n |-> n]
Null == [k |-> "null", n |-> 0]
Undef == [k |-> "undef", n |-> 0]
Err == [k |-> "err", n |-> 0]

\* Number.isFinite(v)
IsFinite(v) == v.k = "num"

\* ------------------------------------------------------------------------
\* Characters and strings
\* ------------------------------------------------------------------------
Uppers == <<"A","B","C","D","E","F","G","H","I","J","K","L","M",
            "N","O","P","Q","R","S","T","U","V","W","X","Y","Z">>
Lowers == <<"a","b","c","d","e","f","g","h","i","j","k","l","m",
            "n","o","p","q","r","s","t","u","v","w","x","y","z">>
Digits == <<"0","1","2","3","4","5","6","7","8","9">>

Range(f) == {f[i] : i \in DOMAIN f}

IsUpper(c) == c \in Range(Uppers)
IsLower(c) == c \in Range(Lowers)
IsAlpha(c) == IsUpper(c) \/ IsLower(c)
IsDigit(c) == c \in Range(Digits)
IsAlnum(c) == IsAlpha(c) \/ IsDigit(c)
\* \w
IsWord(c) == IsAlnum(c) \/ c = "_"
\* \s (the modelled alphabet has the blank as only white space)
IsSpace(c) == c = " "

\* String.prototype.toLowerCase on one character
LowerChar(c) == IF IsUpper(c) THEN Lowers[CHOOSE i \in 1..26 : Uppers[i] = c] ELSE c
ToLower(s) == [i \in 1..Len(s) |-> LowerChar(s[i])]

DigitVal(c) == (CHOOSE i \in 1..10 : Digits[i] = c) - 1

SetMin(S) == CHOOSE x \in S : \A y \in S : x <= y
SetMax(S) == CHOOSE x \in S : \A y \in S : x >= y

From(s, i) == SubSeq(s, i, Len(s))

\* String.prototype.trim
Trim(s) ==
  LET keep == {i \in 1..Len(s) : ~IsSpace(s[i])}
  IN IF keep = {} THEN <<>> ELSE SubSeq(s, SetMin(keep), SetMax(keep))

\* does pattern p occur in s at position i (ci: ignoring case)
MatchAt(s, p, i, ci) ==
  /\ i >= 1
  /\ i + Len(p) - 1 <= Len(s)
  /\ \A k \in 1..Len(p) :
       IF ci THEN LowerChar(s[i + k - 1]) = LowerChar(p[k]) ELSE s[i + k - 1] = p[k]

\* String.prototype.indexOf, 1-based; 0 when absent (JS: -1)
IndexOf(s, p) ==
  LET hits == {i \in 1..Len(s) : MatchAt(s, p, i, FALSE)}
  IN IF hits = {} THEN 0 ELSE SetMin(hits)

\* String.prototype.includes
Includes(s, p) == p = <<>> \/ IndexOf(s, p) > 0

StartsWith(s, p) == MatchAt(s, p, 1, FALSE) \/ p = <<>>

\* regex \b at the gap before position i of s
WordBoundary(s, i) ==
  LET before == i - 1 >= 1 /\ i - 1 <= Len(s) /\ IsWord(s[i - 1])
      after == i >= 1 /\ i <= Len(s) /\ IsWord(s[i])
  IN before # after

\* s.replace(new RegExp(escaped(p), 'g' or 'gi'), r): every non-overlapping
\* occurrence of the literal p, scanning left to right; with bounded = TRUE
\* the pattern is \bp\b
RECURSIVE ReplaceFrom(_, _, _, _, _, _)
ReplaceFrom(s, p, r, ci, bounded, i) ==
  IF i > Len(s) THEN <<>>
  ELSE IF /\ p # <<>>
          /\ MatchAt(s, p, i, ci)
          /\ bounded => (WordBoundary(s, i) /\ WordBoundary(s, i + Len(p)))
       THEN r \o ReplaceFrom(s, p, r, ci, bounded, i + Len(p))
       ELSE <<s[i]>> \o ReplaceFrom(s, p, r, ci, bounded, i + 1)

ReplaceAll(s, p, r, ci) == ReplaceFrom(s, p, r, ci, FALSE, 1)
ReplaceWord(s, p, r, ci) == ReplaceFrom(s, p, r, ci, TRUE, 1)

\* String(n) for an integer n
RECURSIVE NatToStr(_)
NatToStr(n) == IF n < 10 THEN <<Digits[n + 1]>> ELSE NatToStr(n \div 10) \o <<Digits[(n % 10) + 1]>>
NumToStr(n) == IF n < 0 THEN <<"-">> \o NatToStr(0 - n) ELSE NatToStr(n)

\* String(v) for a value that a replace callback returns
ValToStr(v) == IF v.k = "num" THEN NumToStr(v.n)
               ELSE IF v.k = "null" THEN <<"n","u","l","l">>
               ELSE <<"u","n","d","e","f","i","n","e","d">>

RECURSIVE StrToNat(_)
StrToNat(s) == IF s = <<>> THEN 0 ELSE 10 * StrToNat(SubSeq(s, 1, Len(s) - 1)) + DigitVal(s[Len(s)])

\* length of the longest prefix of From(s, i) whose characters satisfy the
\* class cls (a set of characters is passed as its membership test result)
RECURSIVE RunLen(_, _, _)
RunLen(s, i, cls) ==
  IF i <= Len(s) /\ s[i] \in cls THEN 1 + RunLen(s, i + 1, cls) ELSE 0

\* the characters the modelled lines and formulas are written in
Alphabet == Range(Uppers) \cup Range(Lowers) \cup Range(Digits) \cup
            {" ", "=", ":", "#", "+", "-", "*", "(", ")", "/", "$", "_", "{", "}"}
WordChars == {c \in Alphabet : IsWord(c)}
DigitChars == Range(Digits)
SpaceChars == {" "}
AlnumChars == {c \in Alphabet : IsAlnum(c)}

\* ------------------------------------------------------------------------
\* Evaluation of an expression string by the Function constructor
\* ------------------------------------------------------------------------
\* The grammar modelled is the part of JavaScript the modelled lines and
\* formulas can reach: integer literals, identifiers, the literal null,
\* unary and binary + and -, binary *, parentheses.  Anything else (a call,
\* '**', '/', '=', ':', '#', '{', '++', '--', a digit run glued to a letter,
\* a literal with a leading zero) is a token the parser rejects, which is
\* what JavaScript does for every such text the bounded inputs produce.
NaN == [k |-> "nan", n |-> 0]

Tok(t, s) == [t |-> t, s |-> s]
IdStartChars == {c \in Alphabet : IsAlpha(c) \/ c = "_" \/ c = "$"}
IdChars == {c \in Alphabet : IsWord(c) \/ c = "$"}

RECURSIVE Tokenize(_, _)
Tokenize(s, i) ==
  IF i > Len(s) THEN <<>>
  ELSE LET c == s[i] IN
    IF IsSpace(c) THEN Tokenize(s, i + 1)
    ELSE IF IsDigit(c) THEN
      LET n == RunLen(s, i, DigitChars)
          glued == i + n <= Len(s) /\ s[i + n] \in IdStartChars
          octal == n > 1 /\ c = "0"
      IN IF glued \/ octal THEN <<Tok("bad", <<c>>)>>
         ELSE <<Tok("num", SubSeq(s, i, i + n - 1))>> \o Tokenize(s, i + n)
    ELSE IF c \in IdStartChars THEN
      LET n == RunLen(s, i, IdChars)
      IN <<Tok("id", SubSeq(s, i, i + n - 1))>> \o Tokenize(s, i + n)
    ELSE IF c \in {"+", "-", "*"} /\ i < Len(s) /\ s[i + 1] = c THEN <<Tok("bad", <<c, c>>)>>
    ELSE IF c \in {"+", "-", "*", "(", ")"} THEN <<Tok("op", <<c>>)>> \o Tokenize(s, i + 1)
    ELSE <<Tok("bad", <<c>>)>>

\* ToNumber of an operand; a function object or NaN stays NaN
ToNum(v) == IF v.k = "num" THEN v ELSE IF v.k = "null" THEN Num(0) ELSE NaN

Arith(op, a, b) ==
  LET x == ToNum(a)
      y == ToNum(b)
  IN IF x.k # "num" \/ y.k # "num" THEN NaN
     ELSE IF op = "+" THEN Num(x.n + y.n)
     ELSE IF op = "-" THEN Num(x.n - y.n)
     ELSE Num(x.n * y.n)

PFail == [ok |-> FALSE, v |-> Err, i |-> 0]
POk(v, i) == [ok |-> TRUE, v |-> v, i |-> i]
IsOp(ts, i, c) == i <= Len(ts) /\ ts[i].t = "op" /\ ts[i].s = <<c>>

RECURSIVE ParseExpr(_, _, _)
RECURSIVE ExprRest(_, _, _, _)
RECURSIVE ParseTerm(_, _, _)
RECURSIVE TermRest(_, _, _, _)
RECURSIVE ParseUnary(_, _, _)
RECURSIVE ParsePrimary(_, _, _)

\* In the definitions below a LET operator with a parameter binds an
\* intermediate result, the way a const of the code does.
ParsePrimary(ts, i, env) ==
  IF i > Len(ts) THEN PFail
  ELSE IF ts[i].t = "num" THEN POk(Num(StrToNat(ts[i].s)), i + 1)
  ELSE IF ts[i].t = "id" THEN
    IF ts[i].s = <<"n","u","l","l">> THEN POk(Null, i + 1)
    ELSE IF ts[i].s \in DOMAIN env THEN POk(env[ts[i].s], i + 1)
    ELSE PFail   \* ReferenceError
  ELSE IF IsOp(ts, i, "(") THEN
    LET Close(r) == IF r.ok /\ IsOp(ts, r.i, ")") THEN POk(r.v, r.i + 1) ELSE PFail
    IN Close(ParseExpr(ts, i + 1, env))
  ELSE PFail

ParseUnary(ts, i, env) ==
  LET Sign(r, op) ==
        IF ~r.ok THEN PFail
        ELSE IF op = "-" THEN POk(Arith("-", Num(0), r.v), r.i) ELSE POk(ToNum(r.v), r.i)
  IN IF IsOp(ts, i, "-") \/ IsOp(ts, i, "+")
     THEN Sign(ParseUnary(ts, i + 1, env), ts[i].s[1])
     ELSE ParsePrimary(ts, i, env)

TermRest(ts, i, env, acc) ==
  IF IsOp(ts, i, "*") THEN
    LET Times(r) == IF r.ok THEN TermRest(ts, r.i, env, Arith("*", acc, r.v)) ELSE PFail
    IN Times(ParseUnary(ts, i + 1, env))
  ELSE POk(acc, i)

ParseTerm(ts, i, env) ==
  LET First(r) == IF r.ok THEN TermRest(ts, r.i, env, r.v) ELSE PFail
  IN First(ParseUnary(ts, i, env))

ExprRest(ts, i, env, acc) ==
  IF IsOp(ts, i, "+") \/ IsOp(ts, i, "-") THEN
    LET Plus(r) == IF r.ok THEN ExprRest(ts, r.i, env, Arith(ts[i].s[1], acc, r.v)) ELSE PFail
    IN Plus(ParseTerm(ts, i + 1, env))
  ELSE POk(acc, i)

ParseExpr(ts, i, env) ==
  LET First(r) == IF r.ok THEN ExprRest(ts, r.i, env, r.v) ELSE PFail
  IN First(ParseTerm(ts, i, env))

\* the value of the token sequence, Err when it is no expression
EvalTokens(ts, env) ==
  IF ts = <<>> \/ \E i \in 1..Len(ts) : ts[i].t = "bad" THEN Err
  ELSE LET Whole(r) == IF r.ok /\ r.i = Len(ts) + 1 THEN r.v ELSE Err
       IN Whole(ParseExpr(ts, 1, env))

\* Function(...names, 'return (' + expr + ')')(...values): the value, or Err
\* when the construction or the call throws
JsEval(expr, env) == EvalTokens(Tokenize(expr, 1), env)

NoEnv == [x \in {} |-> Null]

\* ------------------------------------------------------------------------
\* Ordered maps (a JS object with string keys, in insertion order)
\* ------------------------------------------------------------------------
MapKeys(m) == [i \in 1..Len(m) |-> m[i].name]
MapHas(m, name) == \E i \in 1..Len(m) : m[i].name = name
MapGet(m, name) == m[CHOOSE i \in 1..Len(m) : m[i].name = name].val
\* variant that keeps the first value stored under a name
MapSetOnce(m, name, v) ==
  IF MapHas(m, name) THEN m ELSE Append(m, [name |-> name, val |-> v])
\* m[name] = v
MapSet(m, name, v) ==
  IF MapHas(m, name)
  THEN [i \in 1..Len(m) |-> IF m[i].name = name THEN [name |-> name, val |-> v] ELSE m[i]]
  ELSE Append(m, [name |-> name, val |-> v])
MapAsEnv(m) == [nm \in Range(MapKeys(m)) |-> MapGet(m, nm)]

\* variant that leaves the names in insertion order
UnsortedNames(names) == names
\* names.sort((a, b) => b.length - a.length): stable, longest first
RECURSIVE SortByLenDesc(_, _)
SortByLenDesc(names, len) ==
  IF len = 0 THEN <<>>
  ELSE SelectSeq(names, LAMBDA nm : Len(nm) = len) \o SortByLenDesc(names, len - 1)
SortedNames(names) ==
  IF names = <<>> THEN <<>>
  ELSE SortByLenDesc(names, SetMax({Len(names[i]) : i \in 1..Len(names)}))

\* ------------------------------------------------------------------------
\* utils/evaluator: helper functions
\* ------------------------------------------------------------------------
Str2(a, b) == <<a, b>>

\* s.replace(/\/\/.*$/, '').trim()
stripInlineComment(s) ==
  LET i == IndexOf(s, <<"/", "/">>)
  IN IF i = 0 THEN Trim(s) ELSE Trim(SubSeq(s, 1, i - 1))

TagChars == WordChars \cup {"-"}
TagSpaceChars == WordChars \cup {"-", " "}

\* line.replace(/#([A-Za-z0-9][\w-]*)/g, '').trim()
RECURSIVE RemoveTagsFrom(_, _)
RemoveTagsFrom(s, i) ==
  IF i > Len(s) THEN <<>>
  ELSE IF s[i] = "#" /\ i < Len(s) /\ IsAlnum(s[i + 1])
       THEN RemoveTagsFrom(s, i + 2 + RunLen(s, i + 2, TagChars))
       ELSE <<s[i]>> \o RemoveTagsFrom(s, i + 1)
removeTags(line) == Trim(RemoveTagsFrom(line, 1))

\* /\btag\s*:\s*([A-Za-z0-9][\w\s-]*)/i matched at position i: the position
\* of the first character of the capture group, 0 when there is no match
TagColonAt(s, i) ==
  IF ~(MatchAt(s, <<"t","a","g">>, i, TRUE) /\ WordBoundary(s, i)) THEN 0
  ELSE LET j == i + 3 + RunLen(s, i + 3, SpaceChars)
       IN IF ~(j <= Len(s) /\ s[j] = ":") THEN 0
          ELSE LET k == j + 1 + RunLen(s, j + 1, SpaceChars)
               IN IF k <= Len(s) /\ IsAlnum(s[k]) THEN k ELSE 0

\* null is the empty string: a tag that matched has at least one character
NoTag == <<>>

extractTag(line) ==
  LET Capture1(k) == Trim(ToLower(SubSeq(line, k, k + RunLen(line, k + 1, TagSpaceChars))))
      Capture2(h) == ToLower(SubSeq(line, h + 1, h + 1 + RunLen(line, h + 2, TagChars)))
      Match(m1, m2) ==
        IF m1 # {} THEN Capture1(TagColonAt(line, SetMin(m1)))
        ELSE IF m2 # {} THEN Capture2(SetMin(m2))
        ELSE NoTag
  IN Match({i \in 1..Len(line) : TagColonAt(line, i) > 0},
           {i \in 1..Len(line) : line[i] = "#" /\ i < Len(line) /\ IsAlnum(line[i + 1])})

\* raw.trim().replace(/[^A-Za-z0-9_]+/g, '_').replace(/^_+|_+$/g, '') || null
\* (null is the empty string)
RECURSIVE SquashNonWord(_, _)
SquashNonWord(s, i) ==
  IF i > Len(s) THEN <<>>
  ELSE IF IsWord(s[i]) THEN <<s[i]>> \o SquashNonWord(s, i + 1)
  ELSE <<"_">> \o SquashNonWord(s, i + 1 + RunLen(s, i + 1, Alphabet \ WordChars))
StripUnderscores(t) ==
  LET keep == {i \in 1..Len(t) : t[i] # "_"}
  IN IF keep = {} THEN <<>> ELSE SubSeq(t, SetMin(keep), SetMax(keep))
normalizeVarName(raw) == StripUnderscores(SquashNonWord(Trim(raw), 1))

\* one of the words ws (compared ignoring case) at position i, optionally
\* followed by s, and then \b: the length matched, 0 when none
UnitAt(s, i, ws) ==
  LET Ends(n, e) ==
        IF e <= Len(s) /\ LowerChar(s[e]) = "s" /\ WordBoundary(s, e + 1) THEN n + 1
        ELSE IF WordBoundary(s, e) THEN n
        ELSE 0
      Word(w) == Ends(Len(w), i + Len(w))
      Longest(hit) ==
        IF hit = {} THEN 0 ELSE Word(CHOOSE x \in hit : \A y \in hit : Len(x) >= Len(y))
  IN Longest({w \in ws : MatchAt(s, w, i, TRUE)})

RateUnits == { <<"h","r">>, <<"h","o","u","r">>, <<"d","a","y">>, <<"w","e","e","k">>,
               <<"m","o","n","t","h">>, <<"y","e","a","r">>, <<"p","e","r","s","o","n">>,
               <<"u","n","i","t">>, <<"i","t","e","m">> }
TimeUnits == { <<"h","o","u","r">>, <<"h","r">>, <<"d","a","y">>, <<"w","e","e","k">>,
               <<"m","o","n","t","h">>, <<"y","e","a","r">>, <<"m","i","n">>, <<"s","e","c">> }

\* s.replace(/\/\s*(?:hr|hour|...|item)s?\b/gi, '')
RECURSIVE StripRates(_, _)
StripRates(s, i) ==
  IF i > Len(s) THEN <<>>
  ELSE LET Skip(j, n) == IF n > 0 THEN StripRates(s, j + n) ELSE <<s[i]>> \o StripRates(s, i + 1)
           Unit(j) == Skip(j, IF s[i] = "/" THEN UnitAt(s, j, RateUnits) ELSE 0)
       IN Unit(i + 1 + RunLen(s, i + 1, SpaceChars))

\* s.replace(/(\d+(?:\.\d+)?)\s*(?:hours?|hrs?|...|secs?)\b/gi, '$1')
RECURSIVE StripTimeUnits(_, _)
StripTimeUnits(s, i) ==
  IF i > Len(s) THEN <<>>
  ELSE IF IsDigit(s[i]) THEN
    LET Skip(d, j, n) ==
          SubSeq(s, i, i + d - 1) \o StripTimeUnits(s, IF n > 0 THEN j + n ELSE i + d)
        Unit(d, j) == Skip(d, j, UnitAt(s, j, TimeUnits))
        Number(d) == Unit(d, i + d + RunLen(s, i + d, SpaceChars))
    IN Number(RunLen(s, i, DigitChars))
  ELSE <<s[i]>> \o StripTimeUnits(s, i + 1)

normalizeUnits(expr) == StripTimeUnits(StripRates(expr, 1), 1)

GlueWords == {
  <<"p","e","r">>, <<"o","f">>, <<"o","n">>, <<"a","t">>, <<"f","o","r">>, <<"a">>, <<"a","n">>,
  <<"t","h","e">>, <<"i","s">>, <<"e","q","u","a","l","s">>, <<"e","q","u","a","l">>,
  <<"h","o","u","r","s">>, <<"h","o","u","r">>, <<"h","r","s">>, <<"h","r">>,
  <<"d","a","y","s">>, <<"d","a","y">>, <<"w","e","e","k","s">>, <<"w","e","e","k">>,
  <<"m","o","n","t","h","s">>, <<"m","o","n","t","h">>, <<"y","e","a","r","s">>, <<"y","e","a","r">>,
  <<"m","i","n","u","t","e","s">>, <<"m","i","n","u","t","e">>, <<"m","i","n","s">>, <<"m","i","n">>,
  <<"s","e","c","o","n","d","s">>, <<"s","e","c","o","n","d">>, <<"s","e","c","s">>, <<"s","e","c">>,
  <<"i","t","e","m","s">>, <<"i","t","e","m">>, <<"u","n","i","t","s">>, <<"u","n","i","t">>,
  <<"p","i","e","c","e","s">>, <<"p","i","e","c","e">>, <<"p","c","s">>, <<"p","c">>,
  <<"f","l","a","t">>, <<"f","e","e">>, <<"e","a","c","h">> }

\* expr.replace(/\b(per|of|...|each)\b/gi, ' '): a match is a whole maximal
\* run of word characters
RECURSIVE tokenizeNaturalGlueFrom(_, _)
tokenizeNaturalGlueFrom(s, i) ==
  IF i > Len(s) THEN <<>>
  ELSE IF IsWord(s[i]) THEN
    LET Word(n, w) ==
          (IF ToLower(w) \in GlueWords THEN <<" ">> ELSE w) \o tokenizeNaturalGlueFrom(s, i + n)
        Run(n) == Word(n, SubSeq(s, i, i + n - 1))
    IN Run(RunLen(s, i, WordChars))
  ELSE <<s[i]>> \o tokenizeNaturalGlueFrom(s, i + 1)
tokenizeNaturalGlue(expr) == tokenizeNaturalGlueFrom(expr, 1)

\* s.replace(/\$\s*(number)/g, number without commas): without ',' and '.'
\* in the alphabet this removes the '$' and the blanks before a digit
RECURSIVE StripCurrency(_, _)
StripCurrency(s, i) ==
  IF i > Len(s) THEN <<>>
  ELSE LET j == i + 1 + RunLen(s, i + 1, SpaceChars)
       IN IF s[i] = "$" /\ j <= Len(s) /\ IsDigit(s[j])
          THEN StripCurrency(s, j)
          ELSE <<s[i]>> \o StripCurrency(s, i + 1)

\* s.replace(/\s+/g, ' ')
RECURSIVE CollapseSpaces(_, _)
CollapseSpaces(s, i) ==
  IF i > Len(s) THEN <<>>
  ELSE IF IsSpace(s[i]) THEN <<" ">> \o CollapseSpaces(s, i + RunLen(s, i, SpaceChars))
  ELSE <<s[i]>> \o CollapseSpaces(s, i + 1)

\* The replacements of the Unicode operators, of N% and of ^ are the
\* identity on the modelled alphabet.
preprocessExpression(expr) ==
  Trim(CollapseSpaces(tokenizeNaturalGlue(StripCurrency(normalizeUnits(Trim(expr)), 1)), 1))

\* scope is an ordered map whose values are finite numbers
RECURSIVE SubstituteNames(_, _, _)
SubstituteNames(expr, names, scope) ==
  IF names = <<>> THEN expr
  ELSE SubstituteNames(ReplaceWord(expr, Head(names), NumToStr(MapGet(scope, Head(names))), TRUE),
                       Tail(names), scope)
substituteVariables(expr, scope) ==
  IF scope = <<>> THEN expr ELSE SubstituteNames(expr, SortedNames(MapKeys(scope)), scope)

AllDigits(s, a, b) == a >= 1 /\ b <= Len(s) /\ \A i \in a..b : IsDigit(s[i])
HexChars == DigitChars \cup {"a","b","c","d","e","f","A","B","C","D","E","F"}

\* /^\d{1,2}\/\d{1,2}\/\d{2,4}$/
LooksLikeDate(s) ==
  \E a \in 1..2, b \in 1..2, c \in 2..4 :
    /\ Len(s) = a + b + c + 2
    /\ AllDigits(s, 1, a) /\ s[a + 1] = "/"
    /\ AllDigits(s, a + 2, a + b + 1) /\ s[a + b + 2] = "/"
    /\ AllDigits(s, a + b + 3, Len(s))
\* /^\d{1,2}:\d{2}(:\d{2})?$/
LooksLikeTime(s) ==
  \E a \in 1..2 :
    /\ Len(s) >= a + 3 /\ AllDigits(s, 1, a) /\ s[a + 1] = ":" /\ AllDigits(s, a + 2, a + 3)
    /\ \/ Len(s) = a + 3
       \/ Len(s) = a + 6 /\ s[a + 4] = ":" /\ AllDigits(s, a + 5, a + 6)
\* /^\d{3}[-.\s]?\d{3,4}[-.\s]?\d{4}$/
LooksLikePhone(s) ==
  \E p \in 0..1, b \in 3..4, q \in 0..1 :
    /\ Len(s) = 3 + p + b + q + 4
    /\ AllDigits(s, 1, 3)
    /\ p = 1 => s[4] \in {"-", " "}
    /\ AllDigits(s, 4 + p, 3 + p + b)
    /\ q = 1 => s[4 + p + b] \in {"-", " "}
    /\ AllDigits(s, 4 + p + b + q, Len(s))
\* /^https?:\/\//
LooksLikeUrl(s) ==
  \/ MatchAt(s, <<"h","t","t","p",":","/","/">>, 1, FALSE)
  \/ MatchAt(s, <<"h","t","t","p","s",":","/","/">>, 1, FALSE)
\* /^[0-9a-fA-F]{8}-[0-9a-fA-F]{4}-/
LooksLikeUuid(s) ==
  /\ Len(s) >= 14 /\ \A i \in 1..8 : s[i] \in HexChars
  /\ s[9] = "-" /\ (\A i \in 10..13 : s[i] \in HexChars) /\ s[14] = "-"

\* The e-mail pattern needs '@' and '.', which the alphabet lacks.  The
\* function-call alternative of the positive phase needs '(' and is
\* subsumed by the operator class.
looksLikeMath(s) ==
  IF LooksLikeDate(s) \/ LooksLikeTime(s) \/ LooksLikePhone(s)
     \/ LooksLikeUrl(s) \/ LooksLikeUuid(s)
  THEN FALSE
  ELSE \E i \in 1..Len(s) : IsDigit(s[i]) \/ s[i] \in {"$", "+", "-", "*", "/", "(", ")"}

\* /\$/.test(rawLine) ? 'currency' : 'number'
classifyFormat(rawLine) == IF Includes(rawLine, <<"$">>) THEN "currency" ELSE "number"

\* Object.keys(SAFE_FUNCS) (utils/constants)
SAFE_FUNCS == <<
  <<"s","q","r","t">>, <<"a","b","s">>, <<"r","o","u","n","d">>, <<"f","l","o","o","r">>,
  <<"c","e","i","l">>, <<"m","i","n">>, <<"m","a","x">>, <<"p","o","w">>, <<"l","o","g">>,
  <<"l","o","g","1","0">>, <<"e","x","p">>, <<"s","i","n">>, <<"c","o","s">>, <<"t","a","n">>,
  <<"P","I">>, <<"E">> >>

\* words that cannot be parameter names of a strict function
ReservedWords == {
  <<"i","f">>, <<"i","n">>, <<"d","o">>, <<"f","o","r">>, <<"n","e","w">>, <<"v","a","r">>,
  <<"l","e","t">>, <<"t","r","y">>, <<"t","h","i","s">>, <<"e","l","s","e">>, <<"c","a","s","e">>,
  <<"v","o","i","d">>, <<"w","i","t","h">>, <<"e","n","u","m">>, <<"n","u","l","l">>,
  <<"t","r","u","e">>, <<"e","v","a","l">>, <<"f","a","l","s","e">>, <<"c","l","a","s","s">>,
  <<"c","o","n","s","t">>, <<"s","u","p","e","r">>, <<"t","h","r","o","w">>, <<"w","h","i","l","e">>,
  <<"y","i","e","l","d">>, <<"b","r","e","a","k">>, <<"c","a","t","c","h">> }

\* buildEvaluator(scope)(expr).  Function(...names, code) throws, and the
\* evaluator returns null, when a scope key is no identifier (it starts with
\* a digit), is a reserved word, or repeats a SAFE_FUNCS name (duplicate
\* parameter of a strict function).  A SAFE_FUNCS name used as a value is a
\* function object, NaN in any arithmetic.  (PI and E are non-integers; the
\* modelled lines do not use these two identifiers.)
buildEvaluator(scope, expr) ==
  LET keys == MapKeys(scope)
      badKey == \E i \in 1..Len(keys) :
                  \/ IsDigit(keys[i][1])
                  \/ keys[i] \in ReservedWords
                  \/ keys[i] \in Range(SAFE_FUNCS)
      env == [nm \in Range(SAFE_FUNCS) \cup Range(keys) |->
                IF nm \in Range(keys) THEN Num(MapGet(scope, nm)) ELSE NaN]
      Catch(v) == IF v.k = "err" THEN Null ELSE v
  IN Catch(IF badKey THEN Err ELSE JsEval(expr, env))

\* /^sum\s*:\s*([A-Za-z0-9][\w\s-]*)\s*$/i : the capture group, or the empty
\* string when the text does not match
SumMatch(s) ==
  IF ~MatchAt(s, <<"s","u","m">>, 1, TRUE) THEN <<>>
  ELSE LET j == 4 + RunLen(s, 4, SpaceChars)
       IN IF ~(j <= Len(s) /\ s[j] = ":") THEN <<>>
          ELSE LET k == j + 1 + RunLen(s, j + 1, SpaceChars)
               IN IF /\ k <= Len(s) /\ IsAlnum(s[k])
                     /\ \A i \in (k + 1)..Len(s) : s[i] \in TagSpaceChars
                  THEN From(s, k) ELSE <<>>

\* ------------------------------------------------------------------------
\* utils/evaluator: evaluateDocument
\* ------------------------------------------------------------------------
Result(value, type, format, explanation, formula, source) ==
  [value |-> value, type |-> type, format |-> format, explanation |-> explanation,
   formula |-> formula, source |-> source]

NoResults == [x \in {} |-> Result(Null, "", "", <<>>, <<>>, "")]

\* variant that keeps the scopes of the previous invocation
EvalKept ==
  [mathScope |-> evalSt.mathScope, fullScope |-> evalSt.fullScope,
   variableLines |-> evalSt.variableLines,
   lineValues |-> <<>>, lineTags |-> <<>>, results |-> [x \in {} |-> 0]]

\* the structures evaluateDocument creates before its loop
EvalFresh ==
  [mathScope |-> <<>>, fullScope |-> <<>>, variableLines |-> <<>>,
   lineValues |-> <<>>, lineTags |-> <<>>, results |-> NoResults]

Push(st, v, tag) ==
  [st EXCEPT !.lineValues = Append(@, v), !.lineTags = Append(@, tag)]

WithResult(st, i, r) ==
  [st EXCEPT !.results = [k \in DOMAIN @ \cup {i} |-> IF k = i THEN r ELSE @[k]]]

\* sum of the values of the lines before i that have the tag
RECURSIVE SumTagged(_, _, _)
SumTagged(st, tag, j) ==
  IF j = 0 THEN [sum |-> 0, count |-> 0]
  ELSE LET r == SumTagged(st, tag, j - 1)
       IN IF st.lineTags[j] = tag /\ IsFinite(st.lineValues[j])
          THEN [sum |-> r.sum + st.lineValues[j].n, count |-> r.count + 1]
          ELSE r

SumExplanation(tag, count) ==
  IF count > 0 THEN <<"S","u","m"," ","o","f"," ","#">> \o tag
  ELSE <<"N","o"," ","#">> \o tag \o <<" ","f","o","u","n","d">>
SumFormula(tag) == <<"s","u","m","(">> \o tag \o <<")">>

\* step 2 of the loop body: "sum: tagName"
EvalSumLine(st, i, tagRaw) ==
  LET Scope(s1, tag, sum) ==
        [s1 EXCEPT !.fullScope =
           MapSet(MapSet(MapSet(@, <<"s","u","m",":">> \o tag, sum),
                         <<"s","u","m",":"," ">> \o tag, sum),
                  SumFormula(tag), sum)]
      Total(tag, r) ==
        Scope(WithResult(Push(st, Num(r.sum), tag), i,
                Result(Num(r.sum), "total", "number", SumExplanation(tag, r.count),
                       SumFormula(tag), "local")),
              tag, r.sum)
      Tagged(tag) == Total(tag, SumTagged(st, tag, i))
  IN Tagged(ToLower(tagRaw))

\* step 3: "Name = expression"; ok = FALSE when the line is no assignment
EvalAssignment(st, i, raw, trimmed) ==
  LET Store(varId, friendlyName, exprRaw, val) ==
        WithResult(
          Push([st EXCEPT !.mathScope = MapSet(@, varId, val.n),
                          !.fullScope = MapSet(MapSet(@, friendlyName, val.n), varId, val.n),
                          !.variableLines = MapSet(@, friendlyName, i)],
               val, extractTag(raw)),
          i, Result(val, "variable", classifyFormat(raw),
                    <<"S","e","t"," ">> \o friendlyName, Trim(exprRaw), "local"))
      Decide(varId, friendlyName, right, exprRaw, val) ==
        IF varId # <<>> /\ Trim(right) # <<>> /\ IsFinite(val)
        THEN [ok |-> TRUE, st |-> Store(varId, friendlyName, exprRaw, val)]
        ELSE [ok |-> FALSE, st |-> st]
      Evaluate(left, right, exprRaw) ==
        Decide(normalizeVarName(left), Trim(left), right, exprRaw,
               buildEvaluator(st.mathScope,
                              preprocessExpression(substituteVariables(exprRaw, st.fullScope))))
      Sides(left, right) == Evaluate(left, right, removeTags(stripInlineComment(right)))
      Split(eqIdx) ==
        IF eqIdx > 1 THEN Sides(SubSeq(trimmed, 1, eqIdx - 1), From(trimmed, eqIdx + 1))
        ELSE [ok |-> FALSE, st |-> st]
  IN Split(IndexOf(trimmed, <<"=">>))

\* step 4: "Label: expression"
EvalLabeled(st, i, raw, trimmed) ==
  LET Store(varId, friendlyName, exprRaw, val) ==
        WithResult(
          Push([st EXCEPT !.mathScope = IF varId # <<>> THEN MapSet(@, varId, val.n) ELSE @,
                          !.fullScope = IF varId # <<>>
                                        THEN MapSet(MapSet(@, friendlyName, val.n), varId, val.n)
                                        ELSE MapSet(@, friendlyName, val.n),
                          !.variableLines = MapSet(@, friendlyName, i)],
               val, extractTag(raw)),
          i, Result(val, "calc", classifyFormat(raw), friendlyName, Trim(exprRaw), "local"))
      Decide(friendlyName, exprRaw, val) ==
        IF looksLikeMath(preprocessExpression(exprRaw)) /\ IsFinite(val)
        THEN [ok |-> TRUE, st |-> Store(normalizeVarName(friendlyName), friendlyName, exprRaw, val)]
        ELSE [ok |-> FALSE, st |-> st]
      Evaluate(left, exprRaw) ==
        Decide(Trim(left), exprRaw,
               buildEvaluator(st.mathScope,
                              preprocessExpression(substituteVariables(exprRaw, st.fullScope))))
      Split(colonIdx) ==
        IF colonIdx > 1
        THEN Evaluate(SubSeq(trimmed, 1, colonIdx - 1),
                      removeTags(stripInlineComment(From(trimmed, colonIdx + 1))))
        ELSE [ok |-> FALSE, st |-> st]
  IN Split(IndexOf(trimmed, <<":">>))

\* /\btotal\b/i.test(raw)
HasWordTotal(raw) ==
  \E p \in 1..Len(raw) :
    MatchAt(raw, <<"t","o","t","a","l">>, p, TRUE) /\ WordBoundary(raw, p) /\ WordBoundary(raw, p + 5)

\* steps 5 and 6: standalone expression, or text with no value
EvalStandalone(st, i, raw) ==
  LET Decide(exprRaw, tag, val) ==
        IF looksLikeMath(preprocessExpression(exprRaw)) /\ IsFinite(val)
        THEN WithResult(Push(st, val, tag), i,
               Result(val, IF HasWordTotal(raw) THEN "total" ELSE "calc", classifyFormat(raw),
                      IF tag # NoTag THEN <<"T","a","g","g","e","d"," ","#">> \o tag ELSE <<>>,
                      Trim(exprRaw), "local"))
        ELSE Push(st, Null, tag)
      Evaluate(exprRaw) ==
        Decide(exprRaw, extractTag(raw),
               buildEvaluator(st.mathScope,
                              preprocessExpression(substituteVariables(exprRaw, st.fullScope))))
  IN Evaluate(removeTags(stripInlineComment(raw)))

\* the body of the loop for line index i (lines[i] of the code is lines[i + 1])
EvalLine(st, lines, i) ==
  LET Labeled(raw, lab) == IF lab.ok THEN lab.st ELSE EvalStandalone(st, i, raw)
      Assignment(raw, trimmed, asg) ==
        IF asg.ok THEN asg.st ELSE Labeled(raw, EvalLabeled(st, i, raw, trimmed))
      Steps(raw, trimmed, sumTag) ==
        IF trimmed = <<>> \/ StartsWith(trimmed, <<"/", "/">>) THEN Push(st, Null, extractTag(raw))
        ELSE IF sumTag # <<>> THEN EvalSumLine(st, i, sumTag)
        ELSE Assignment(raw, trimmed, EvalAssignment(st, i, raw, trimmed))
      Line(raw, trimmed) == Steps(raw, trimmed, SumMatch(stripInlineComment(trimmed)))
  IN Line(lines[i + 1], Trim(lines[i + 1]))

RECURSIVE EvalLines(_, _)
EvalLines(lines, n) ==
  IF n = 0 THEN EvalFresh ELSE EvalLine(EvalLines(lines, n - 1), lines, n - 1)

\* { results, variables: fullScope, variableLines }
evaluateDocument(lines) ==
  LET Return(st) ==
        [results |-> st.results, variables |-> st.fullScope, variableLines |-> st.variableLines]
  IN Return(EvalLines(lines, Len(lines)))

\* ------------------------------------------------------------------------
\* NeoCalcUI.jsx: validation of AI output
\* ------------------------------------------------------------------------
\* s.replace(/[^a-z0-9]/gi, '').toLowerCase()
NormalizeAlnum(s) == ToLower(SelectSeq(s, IsAlnum))

\* variant without the check: no rewrite counts as self-referencing
NeverSelfReference(varName, formula) == FALSE

isSelfReference(varName, formula) ==
  IF varName = <<>> \/ formula = <<>> THEN FALSE
  ELSE Includes(NormalizeAlnum(formula), NormalizeAlnum(varName))

\* s.replace(/L\{?\d+\}?/g, f(digits)); ci adds the i flag.  The callback is
\* given as a function from the digit string to the replacement text.
RECURSIVE ReplaceLineRefs(_, _, _, _)
ReplaceLineRefs(s, i, ci, f) ==
  IF i > Len(s) THEN <<>>
  ELSE LET isL == s[i] = "L" \/ (ci /\ s[i] = "l")
           Ref(j, n, e) ==
             IF isL /\ n > 0
             THEN f[SubSeq(s, j, j + n - 1)] \o ReplaceLineRefs(s, e, ci, f)
             ELSE <<s[i]>> \o ReplaceLineRefs(s, i + 1, ci, f)
           Digits1(j, n) ==
             Ref(j, n, IF j + n <= Len(s) /\ s[j + n] = "}" THEN j + n + 1 ELSE j + n)
           Brace(j) == Digits1(j, RunLen(s, j, DigitChars))
       IN Brace(IF i < Len(s) /\ s[i + 1] = "{" THEN i + 2 ELSE i + 1)

\* the digit strings that occur in s
DigitStrings(s) ==
  {d \in {SubSeq(s, a, b) : a \in 1..Len(s), b \in 1..Len(s)} :
     d # <<>> /\ \A k \in 1..Len(d) : IsDigit(d[k])}

LPrev == <<"L","{","p","r","e","v","}">>

\* .replace(/L\{?\d+\}?/gi, '1').replace(/L\{prev\}/gi, '1')
DummyLineRefs(s) ==
  ReplaceAll(ReplaceLineRefs(s, 1, TRUE, [d \in DigitStrings(s) |-> <<"1">>]), LPrev, <<"1">>, TRUE)

mathFuncs == <<
  <<"s","q","r","t">>, <<"a","b","s">>, <<"r","o","u","n","d">>, <<"f","l","o","o","r">>,
  <<"c","e","i","l">>, <<"m","i","n">>, <<"m","a","x">>, <<"p","o","w">>, <<"l","o","g">>,
  <<"l","o","g","1","0">>, <<"e","x","p">>, <<"s","i","n">>, <<"c","o","s">>, <<"t","a","n">> >>

\* s.replace(/\b(sqrt|abs|...|tan)/gi, ''): the first alternative that matches
RECURSIVE RemoveMathFuncs(_, _)
RemoveMathFuncs(s, i) ==
  IF i > Len(s) THEN <<>>
  ELSE LET hit == {k \in 1..Len(mathFuncs) : MatchAt(s, mathFuncs[k], i, TRUE)}
       IN IF WordBoundary(s, i) /\ hit # {}
          THEN RemoveMathFuncs(s, i + Len(mathFuncs[SetMin(hit)]))
          ELSE <<s[i]>> \o RemoveMathFuncs(s, i + 1)

\* keys of availableVars, each mapped to 1
DummyScope(availableVars) ==
  [i \in 1..Len(availableVars) |-> [name |-> availableVars[i].name, val |-> 1]]

\* checkExpr.replace(mathFuncs, '').replace(/[0-9.]+/g, '').replace(/[+\-*/^()=,]/g, '').trim()
Residue(evalExpr) ==
  Trim(SelectSeq(RemoveMathFuncs(evalExpr, 1),
                 LAMBDA c : ~IsDigit(c) /\ c \notin {".", "+", "-", "*", "/", "^", "(", ")", "=", ","}))

\* validateAiFormula(...).valid
validateAiFormula(formula, varName, availableVars) ==
  LET Known(checkExpr) == checkExpr # <<>> => ToLower(checkExpr) = <<"s","u","m">>
      Syntax(evalExpr) == Known(Residue(evalExpr)) /\ JsEval(evalExpr, NoEnv).k # "err"
  IN /\ formula # <<>>
     /\ ~(varName # <<>> /\ isSelfReference(varName, formula))
     /\ Syntax(DummyLineRefs(substituteVariables(formula, DummyScope(availableVars))))

\* ------------------------------------------------------------------------
\* NeoCalcUI.jsx: the reconciliation effect
\* ------------------------------------------------------------------------
\* An item of aiLogic.  An absent field is the empty string.
AiItem(kind, rhs, explanation) ==
  [kind |-> kind, type |-> "", rhs |-> rhs, formula |-> <<>>, format |-> <<>>,
   explanation |-> explanation]

NoAi == [x \in {} |-> AiItem("", <<>>, <<>>)]
NoValues == [x \in {} |-> Null]

HasKey(f, k) == k \in DOMAIN f
Put(f, k, v) == [x \in DOMAIN f \cup {k} |-> IF x = k THEN v ELSE f[x]]

\* the variable name the reconciliation takes from the line:
\* split('=')[0].trim(), else split(':')[0].trim(), else null (empty)
LineVarName(currentLine) ==
  IF Includes(currentLine, <<"=">>) THEN Trim(SubSeq(currentLine, 1, IndexOf(currentLine, <<"=">>) - 1))
  ELSE IF Includes(currentLine, <<":">>) THEN Trim(SubSeq(currentLine, 1, IndexOf(currentLine, <<":">>) - 1))
  ELSE <<>>

\* variant that registers nothing: dependants never see the value
RegisterNothing(values, varName, val) == values

\* if (varName) variableValues[varName] = val
Register(values, varName, val) ==
  IF varName # <<>> THEN MapSet(values, varName, val.n) ELSE values

\* "If formula contains '=', take only the right side"
AfterEquals(rawFormula) ==
  IF Includes(rawFormula, <<"=">>) THEN Trim(From(rawFormula, IndexOf(rawFormula, <<"=">>) + 1))
  ELSE rawFormula

\* for (vName of sortedVarNames) parsable = parsable.replace(RegExp(escaped, 'gi'), value)
RECURSIVE ReplaceNames(_, _, _)
ReplaceNames(parsable, names, varValues) ==
  IF names = <<>> THEN parsable
  ELSE ReplaceNames(ReplaceAll(parsable, Head(names), NumToStr(MapGet(varValues, Head(names))), TRUE),
                    Tail(names), varValues)
SubstituteValues(parsable, varValues) ==
  ReplaceNames(parsable, SortedNames(MapKeys(varValues)), varValues)

\* finalResults[k]?.value ?? currentValues[k] ?? 0
ValueOrZero(rs, k) ==
  IF HasKey(rs.finalResults, k) /\ rs.finalResults[k].value.k = "num" THEN rs.finalResults[k].value
  ELSE IF HasKey(rs.currentValues, k) /\ rs.currentValues[k].k = "num" THEN rs.currentValues[k]
  ELSE Num(0)

\* the callback of the L{prev} replacement
PrevValue(rs, idx) ==
  LET cand == {i \in 0..(idx - 1) : HasKey(rs.finalResults, i) \/ HasKey(rs.currentValues, i)}
  IN IF cand = {} THEN Num(0)
     ELSE LET i == SetMax(cand)
          IN IF HasKey(rs.finalResults, i) THEN rs.finalResults[i].value ELSE rs.currentValues[i]

\* the callback of the L{n} replacement; the key is the digit string itself,
\* so a number written with a leading zero names no line
LineRefValue(rs, d) ==
  IF Len(d) > 1 /\ d[1] = "0" THEN Num(0) ELSE ValueOrZero(rs, StrToNat(d))

\* The replacements of sum(tag), sqrt(, round(, max( and min( that follow act
\* on a text that has passed validateAiFormula and had its variable names and
\* line references replaced: it holds no letter but a lower-case l, so none
\* of their patterns occurs and they are the identity.
FirstPassExpr(rs, parsable, idx) ==
  LET Lines(s2) ==
        ReplaceLineRefs(s2, 1, FALSE, [d \in DigitStrings(s2) |-> ValToStr(LineRefValue(rs, d))])
  IN Lines(ReplaceAll(SubstituteValues(parsable, rs.variableValues), LPrev,
                      ValToStr(PrevValue(rs, idx)), TRUE))

AiResult(val, aiItem, type) ==
  Result(val, type, "", aiItem.explanation,
         IF aiItem.rhs # <<>> THEN aiItem.rhs ELSE aiItem.formula, "ai")

\* the body of the first lines.forEach for line idx
FirstPassLine(rs, lines, locals, logic, idx) ==
  IF HasKey(locals, idx)
  THEN [rs EXCEPT !.finalResults = Put(@, idx, [locals[idx] EXCEPT !.source = "local"])]
  ELSE IF ~HasKey(logic, idx) THEN rs
  ELSE LET aiItem == logic[idx]
           isRewrite == \/ aiItem.kind = "rewrite"
                        \/ aiItem.kind = "" /\ (aiItem.formula # <<>> \/ aiItem.format # <<>>)
           rawFormula == IF aiItem.rhs # <<>> THEN aiItem.rhs
                         ELSE IF aiItem.formula # <<>> THEN aiItem.formula ELSE aiItem.format
           Store(varName, val) ==
             IF ~IsFinite(val) THEN rs
             ELSE [rs EXCEPT
                     !.finalResults = Put(@, idx,
                        AiResult(val, aiItem, IF aiItem.kind = "rewrite" THEN "calc" ELSE aiItem.kind)),
                     !.currentValues = Put(@, idx, val),
                     !.variableValues = Register(@, varName, val)]
           Evaluate(varName, parsable) ==
             IF parsable = <<>> \/ parsable = <<"0">> THEN rs
             ELSE Store(varName, JsEval(parsable, NoEnv))
           Validate(parsable0, varName) ==
             IF ~validateAiFormula(parsable0, varName, rs.variableValues) THEN rs
             ELSE Evaluate(varName, FirstPassExpr(rs, parsable0, idx))
       IN IF aiItem.kind \in {"header", "note", "variable"} THEN
            IF aiItem.explanation # <<>>
            THEN [rs EXCEPT !.finalResults =
                    Put(@, idx, Result(Null, IF aiItem.kind = "variable" THEN "note" ELSE aiItem.kind,
                                       "", aiItem.explanation, <<>>, "ai"))]
            ELSE rs
          ELSE IF ~(isRewrite /\ rawFormula # <<>>) THEN rs
          ELSE Validate(AfterEquals(rawFormula), LineVarName(lines[idx + 1]))

RECURSIVE FirstPassUpTo(_, _, _, _, _)
FirstPassUpTo(rs, lines, locals, logic, n) ==
  IF n = 0 THEN rs
  ELSE FirstPassLine(FirstPassUpTo(rs, lines, locals, logic, n - 1),
                     lines, locals, logic, n - 1)

\* finalResults, currentValues and variableValues as the effect sets them up
\* from evaluateDocument(text), followed by the first lines.forEach
Seed(ev) ==
  [finalResults |-> ev.results,
   currentValues |-> [k \in DOMAIN ev.results |-> ev.results[k].value],
   variableValues |-> ev.variables,
   changed |-> TRUE]
MergeFrom(rs0, lines, logic) == FirstPassUpTo(rs0, lines, rs0.finalResults, logic, Len(lines))
FirstPass(lines, logic) == MergeFrom(Seed(evaluateDocument(lines)), lines, logic)

\* sum of the finite final values of the lines before idx whose extractTag
\* is the tag
RECURSIVE SumFinal(_, _, _, _)
SumFinal(rs, lines, tag, n) ==
  IF n = 0 THEN [sum |-> 0, count |-> 0]
  ELSE LET i == n - 1
           Add(r) ==
             IF /\ extractTag(lines[i + 1]) = tag
                /\ HasKey(rs.finalResults, i) /\ IsFinite(rs.finalResults[i].value)
             THEN [sum |-> r.sum + rs.finalResults[i].value.n, count |-> r.count + 1]
             ELSE r
       IN Add(SumFinal(rs, lines, tag, n - 1))

\* variableValues[name] !== sum
Differs(varValues, name, sum) ==
  ~MapHas(varValues, name) \/ MapGet(varValues, name) # sum

\* "previous line is just text (no =, no :, not a header, not empty)"
IsPlainLabel(prevLine) ==
  /\ prevLine # <<>>
  /\ ~Includes(prevLine, <<"=">>) /\ ~Includes(prevLine, <<":">>)
  /\ ~StartsWith(prevLine, <<"#">>) /\ ~StartsWith(prevLine, <<"/","/">>)

\* the body of the lines.forEach of the RECALCULATE SUMS loop for line idx
SumPassLine(rs, lines, idx) ==
  LET Keys(rs2, targetTag, sum) ==
        IF Differs(rs2.variableValues, <<"s","u","m",":">> \o targetTag, sum)
        THEN [rs2 EXCEPT !.variableValues =
                           MapSet(MapSet(@, <<"s","u","m",":">> \o targetTag, sum),
                                  <<"s","u","m",":"," ">> \o targetTag, sum),
                         !.changed = TRUE]
        ELSE rs2
      Label(rs1, prevLine, sum) ==
        IF idx > 0 /\ IsPlainLabel(prevLine) /\ Differs(rs1.variableValues, prevLine, sum)
        THEN [rs1 EXCEPT !.variableValues = MapSet(@, prevLine, sum), !.changed = TRUE]
        ELSE rs1
      Update(targetTag, r) ==
        IF ~(HasKey(rs.finalResults, idx) /\ rs.finalResults[idx].value = Num(r.sum))
        THEN [rs EXCEPT !.finalResults = Put(@, idx,
                 Result(Num(r.sum), "total", "number", SumExplanation(targetTag, r.count),
                        SumFormula(targetTag), "local")),
                        !.changed = TRUE]
        ELSE rs
      Total(targetTag, r) ==
        Keys(Label(Update(targetTag, r), IF idx > 0 THEN Trim(lines[idx]) ELSE <<>>, r.sum),
             targetTag, r.sum)
      Tag(targetTag) == Total(targetTag, SumFinal(rs, lines, targetTag, idx))
      Line(sumMatch) == IF sumMatch = <<>> THEN rs ELSE Tag(Trim(ToLower(sumMatch)))
  IN Line(SumMatch(Trim(lines[idx + 1])))

RECURSIVE SumPassUpTo(_, _, _)
SumPassUpTo(rs, lines, n) ==
  IF n = 0 THEN rs ELSE SumPassLine(SumPassUpTo(rs, lines, n - 1), lines, n - 1)

\* one iteration of the RECALCULATE SUMS while loop
SumPass(rs, lines) == SumPassUpTo([rs EXCEPT !.changed = FALSE], lines, Len(lines))

\* parsable.replace(/\$/g, '').replace(/,(\d{3})/g, '$1'); no ',' in the alphabet
CleanForJs(parsable) == SelectSeq(parsable, LAMBDA c : c # "$")

\* the body of the lines.forEach of the iterative AI loop for line idx
AiPassLine(rs, lines, logic, idx) ==
  IF ~HasKey(logic, idx) THEN rs
  ELSE LET aiItem == logic[idx]
           rawFormula == IF aiItem.rhs # <<>> THEN aiItem.rhs ELSE aiItem.formula
           Store(varName, val) ==
             IF ~IsFinite(val) THEN rs
             ELSE [rs EXCEPT
                     !.finalResults = Put(@, idx,
                        AiResult(val, aiItem, IF aiItem.kind = "rewrite" THEN "calc" ELSE aiItem.type)),
                     !.variableValues = Register(@, varName, val),
                     !.changed = IF varName # <<>> THEN TRUE ELSE @]
           Validate(parsable0, varName) ==
             IF ~validateAiFormula(parsable0, varName, rs.variableValues) THEN rs
             ELSE Store(varName,
                        JsEval(CleanForJs(SubstituteValues(parsable0, rs.variableValues)), NoEnv))
       IN IF aiItem.kind = "ignore" THEN rs
          ELSE IF aiItem.kind \in {"header", "note", "skip"} \/ aiItem.type \in {"header", "note"} THEN rs
          ELSE IF rawFormula = <<>> THEN rs
          ELSE IF aiItem.kind = "question" THEN rs
          ELSE Validate(AfterEquals(rawFormula), LineVarName(lines[idx + 1]))

RECURSIVE AiPassUpTo(_, _, _, _)
AiPassUpTo(rs, lines, logic, n) ==
  IF n = 0 THEN rs
  ELSE AiPassLine(AiPassUpTo(rs, lines, logic, n - 1), lines, logic, n - 1)

\* one iteration of the iterative AI while loop
AiPass(rs, lines, logic) == AiPassUpTo([rs EXCEPT !.changed = FALSE], lines, logic, Len(lines))

\* variant with one more pass allowed
OnePassMore == 5 + 1

maxIterations == 5

\* while (changed && iterations < maxIterations) { ... }
RECURSIVE SumLoop(_, _, _)
SumLoop(rs, lines, passes) ==
  IF rs.changed /\ passes < maxIterations
  THEN SumLoop(SumPass(rs, lines), lines, passes + 1)
  ELSE rs

RECURSIVE AiLoop(_, _, _, _)
AiLoop(rs, lines, logic, passes) ==
  IF rs.changed /\ passes < maxIterations
  THEN AiLoop(AiPass(rs, lines, logic), lines, logic, passes + 1)
  ELSE rs

\* the whole timeout callback: the value passed to setComputedResults
Restart(rs) == [rs EXCEPT !.changed = TRUE]
Reconcile(lines, logic) ==
  AiLoop(Restart(SumLoop(Restart(FirstPass(lines, logic)), lines, 0)), lines, logic, 0).finalResults

\* ------------------------------------------------------------------------
\* NeoCalcUI.jsx / utils/security: the LLM request and its response
\* ------------------------------------------------------------------------
\* A parsed JSON value: t is its typeof-like kind ("object", "string",
\* "null", "undefined"); an object has the fields meta and results.
JsUndefined == [t |-> "undefined"]
JsNull == [t |-> "null"]
JsString == [t |-> "string"]
Meta(docId, linesHash) == [t |-> "object", doc_id |-> docId, lines_hash |-> linesHash]
ResultsObject(m) == [t |-> "object", v |-> m]
JsObject(meta, results) == [t |-> "object", meta |-> meta, results |-> results]

\* !v is false
Truthy(v) == v.t \notin {"undefined", "null"}

Verdict(valid, reason) == [valid |-> valid, reason |-> reason]

\* variant without the lines_hash comparison
validateWithoutHash(response, requestDocId, requestLinesHash) ==
  IF ~Truthy(response) \/ response.t # "object"
  THEN Verdict(FALSE, "Response is not a valid JSON object")
  ELSE IF ~Truthy(response.meta) THEN Verdict(FALSE, "Missing meta field in response")
  ELSE IF response.meta.t # "object" \/ response.meta.doc_id # requestDocId
  THEN Verdict(FALSE, "ID Mismatch")
  ELSE IF ~Truthy(response.results) \/ response.results.t # "object"
  THEN Verdict(FALSE, "Missing or invalid results object")
  ELSE Verdict(TRUE, "")

\* the checks in the order of the code; the reason names the check that failed
validateAiResponseSchema(response, requestDocId, requestLinesHash) ==
  IF ~Truthy(response) \/ response.t # "object"
  THEN Verdict(FALSE, "Response is not a valid JSON object")
  ELSE IF ~Truthy(response.meta) THEN Verdict(FALSE, "Missing meta field in response")
  ELSE IF response.meta.t # "object" \/ response.meta.doc_id # requestDocId
  THEN Verdict(FALSE, "ID Mismatch")
  ELSE IF response.meta.lines_hash # requestLinesHash THEN Verdict(FALSE, "Hash Mismatch")
  ELSE IF ~Truthy(response.results) \/ response.results.t # "object"
  THEN Verdict(FALSE, "Missing or invalid results object")
  ELSE Verdict(TRUE, "")

\* !inputText.trim()
IsBlankText(lines) == \A i \in 1..Len(lines) : Trim(lines[i]) = <<>>

\* lineMap: the non-blank lines by index
LineMap(lines) ==
  [idx \in {i \in 0..(Len(lines) - 1) : Trim(lines[i + 1]) # <<>>} |-> lines[idx + 1]]

\* variables: the finite local variables that have a line, in insertion order
RECURSIVE PayloadVariables(_, _, _)
PayloadVariables(localVariables, variableLines, n) ==
  IF n = 0 THEN <<>>
  ELSE LET prev == PayloadVariables(localVariables, variableLines, n - 1)
           e == localVariables[n]
       IN IF MapHas(variableLines, e.name)
          THEN Append(prev, [name |-> e.name,
                             val |-> [line |-> MapGet(variableLines, e.name), value |-> e.val]])
          ELSE prev

\* { lines: lineMap, variables }
Payload(lines) ==
  LET Build(ev) ==
        [lines |-> LineMap(lines),
         variables |-> PayloadVariables(ev.variables, ev.variableLines, Len(ev.variables))]
  IN Build(evaluateDocument(lines))

Quoted(s) == <<"\"">> \o s \o <<"\"">>
KeyLines == <<"l","i","n","e","s">>
KeyVariables == <<"v","a","r","i","a","b","l","e","s">>

\* Object.keys(obj).sort() of the payload
ReplacerKeys == <<KeyLines, KeyVariables>>

\* JSON.stringify(o, replacer) of an object whose own keys are `keys` and
\* whose values are objects without a listed key: the listed keys that are own
\* keys, in the order of the list, each with "{}"
RECURSIVE StringifyListed(_, _, _)
StringifyListed(keys, replacer, n) ==
  IF n = 0 THEN <<>>
  ELSE LET prev == StringifyListed(keys, replacer, n - 1)
       IN IF replacer[n] \in keys
          THEN prev \o (IF prev = <<>> THEN <<>> ELSE <<",">>) \o Quoted(replacer[n]) \o <<":","{","}">>
          ELSE prev

\* JSON.stringify(obj, Object.keys(obj).sort()): the array replacer lists
\* the property names kept at every depth, so a line index is never kept and a
\* variable is kept, as "{}", only when it is named like a top-level key
Stringify(obj) ==
  <<"{">> \o Quoted(KeyLines) \o <<":","{">>
    \o StringifyListed({NatToStr(i) : i \in DOMAIN obj.lines}, ReplacerKeys, 2) \o <<"}",",">>
    \o Quoted(KeyVariables) \o <<":","{">>
    \o StringifyListed(Range(MapKeys(obj.variables)), ReplacerKeys, 2) \o <<"}","}">>

\* the digest of the serialization; distinct serializations are taken to
\* have distinct digests
computeInfoHash(obj) == Stringify(obj)

\* generateUUID(): the n-th invocation gets the n-th identifier
generateUUID(n) == n

\* ------------------------------------------------------------------------
\* Documents and AI responses the specifications draw their inputs from
\* ------------------------------------------------------------------------
W == <<"w">>
LnBlank == <<>>
LnX5 == <<"x"," ","="," ","5">>
LnY3t == <<"y",":"," ","3"," ","#","t">>
Ln4t == <<"4"," ","#","t">>
LnSumT == <<"s","u","m",":"," ","t">>
LnPt == <<"P",":"," ","w"," ","#","t">>
LnQ == <<"Q",":"," ","w">>
LnA == <<"A",":"," ","w">>
LnB == <<"B",":"," ","w">>
LnC == <<"C",":"," ","w">>
LnD == <<"D",":"," ","w">>
LnLines == <<"l","i","n","e","s"," ","="," ","2">>

NameTotal == <<"T","o","t","a","l">>
NameTotalCost == <<"T","o","t","a","l"," ","C","o","s","t">>
LnTot == NameTotal \o <<" ","="," ","1","0">>
LnTotC == NameTotalCost \o <<" ","="," ","5","0">>
LnTotCp1 == NameTotalCost \o <<" ","+"," ","1">>
LnR == <<"R",":"," ","w">>

RhsL1p1 == <<"L","{","1","}"," ","+"," ","1">>
RhsQp1 == <<"Q"," ","+"," ","1">>

Rw(rhs) == AiItem("rewrite", rhs, W)

\* the items an AI response may hold for a line, by the text of the line
AiFor(line) ==
  IF line = LnX5 THEN {Rw(<<"7">>), Rw(<<"x"," ","+"," ","1">>)}
  ELSE IF line = Ln4t THEN {Rw(<<"8">>)}
  ELSE IF line = LnSumT THEN {Rw(<<"1">>)}
  ELSE IF line = LnPt THEN {Rw(<<"6">>), Rw(<<"Q"," ","+"," ","1">>), Rw(<<"P"," ","+"," ","1">>),
                            Rw(<<"P"," ","="," ","5">>), AiItem("header", <<>>, W),
                            AiItem("question", <<"3">>, W)}
  ELSE IF line = LnQ THEN {Rw(<<"3">>), Rw(<<"x"," ","*"," ","2">>), Rw(<<"s","u","m",":","t"," ","+"," ","1">>),
                           Rw(<<"P"," ","+"," ","1">>)}
  ELSE IF line = LnA THEN {Rw(<<"2">>), Rw(<<"B"," ","+"," ","1">>)}
  ELSE IF line = LnB THEN {Rw(<<"A"," ","+"," ","1">>)}
  ELSE IF line = LnC THEN {Rw(<<"B"," ","+"," ","1">>)}
  ELSE IF line = LnD THEN {Rw(<<"C"," ","+"," ","1">>)}
  ELSE IF line = LnR THEN {Rw(LnTotCp1), Rw(RhsL1p1), AiItem("note", <<>>, W), AiItem("header", <<>>, <<>>),
                           AiItem("skip", <<"3">>, W), AiItem("ignore", <<"3">>, W),
                           AiItem("variable", <<"3">>, W)}
  ELSE {}

\* every aiLogic map over the first n lines of the document
RECURSIVE AiMaps(_, _)
AiMaps(lines, n) ==
  IF n = 0 THEN {NoAi}
  ELSE LET prev == AiMaps(lines, n - 1)
       IN prev \cup {Put(m, n - 1, it) : m \in prev, it \in AiFor(lines[n])}

\* number of lines of the enumerated documents
MaxLines == 2

LinePool == {LnX5, Ln4t, LnSumT, LnPt, LnQ}

RECURSIVE SeqsUpTo(_, _)
SeqsUpTo(S, n) ==
  IF n = 0 THEN {<<>>}
  ELSE LET prev == SeqsUpTo(S, n - 1)
       IN prev \cup {Append(q, x) : q \in {p \in prev : Len(p) = n - 1}, x \in S}

Permutations4(a, b, c, d) ==
  {q \in [1..4 -> {a, b, c, d}] : \A i, j \in 1..4 : i # j => q[i] # q[j]}

\* the chain of four rewrites in every order, and the documents whose
\* dependencies need three lines
ScenarioDocs ==
  Permutations4(LnA, LnB, LnC, LnD) \cup
  { <<LnPt, LnQ, LnSumT>>, <<LnQ, LnPt, LnSumT>>, <<LnPt, LnSumT, LnQ>>,
    <<Ln4t, LnSumT, LnSumT>>, <<LnA, LnB>>, <<LnB, LnA>>,
    <<LnTot, LnTotC, LnTotCp1, LnR>>, <<LnTotC, LnTot, LnTotCp1, LnR>>, <<LnR>>,
    <<LnR, LnQ>>, <<Ln4t, LnSumT, Ln4t, LnSumT>> }

Docs == (SeqsUpTo(LinePool, MaxLines) \ {<<>>}) \cup ScenarioDocs

LnXp1 == <<"x"," ","+"," ","1">>

\* bounds of the evaluator runs
MaxRuns == 3
MaxEvalLines == 2
EvalLinePool == {LnX5, LnXp1, LnSumT}
LnX7 == <<"x"," ","="," ","7">>
LnTotal5 == <<"T","o","t","a","l",":"," ","5">>
LnXq == <<"x"," ","="," ","q">>
Ln4 == <<"4">>
Ln4tagT == <<"4"," ","t","a","g",":"," ","t">>
LnComment == <<"/","/"," ","x">>
LnW == <<"w">>
LnAeqBc5 == <<"a"," ","="," ","b",":"," ","5">>

\* documents that bind a name twice, once without success, or after its use
EvalScenarioDocs ==
  { <<LnX5, LnX7, LnXp1>>, <<LnX5, LnXq, LnXp1>>, <<LnX5, LnXp1, LnX7>>, <<LnXp1, LnX5, LnXp1>>,
    <<LnY3t, LnTotal5>>, <<Ln4t, LnSumT>>, <<Ln4t, LnSumT, Ln4t>>,
    <<LnComment, LnBlank, LnW>>, <<LnAeqBc5>>, <<Ln4tagT, LnSumT>> }

EvalDocs == (SeqsUpTo(EvalLinePool, MaxEvalLines) \ {<<>>}) \cup EvalScenarioDocs

\* bounds of the component
MaxEdits == 2
MaxCalls == 2
LnAu5 == <<"a","_","b"," ","="," ","5">>
LnAs7 == <<"a"," ","b"," ","="," ","7">>
TextPool == {<<LnBlank>>, <<LnLines>>, <<LnLines, LnBlank, LnAu5, LnAs7>>}

\* the results object of a response to a request for the text
ResponseMaps(lines) ==
  IF lines = <<LnLines>> THEN {Put(NoAi, 0, Rw(<<"3">>))}
  ELSE {NoAi}

\* ------------------------------------------------------------------------
\* State
\* ------------------------------------------------------------------------
Rs == [finalResults |-> finalResults, currentValues |-> currentValues,
       variableValues |-> variableValues, changed |-> changed]

SetRs(rs) ==
  /\ finalResults' = rs.finalResults
  /\ currentValues' = rs.currentValues
  /\ variableValues' = rs.variableValues
  /\ changed' = rs.changed

NoReturn == [results |-> NoResults, variables |-> <<>>, variableLines |-> <<>>]
NoContent == [empty |-> TRUE, json |-> FALSE, value |-> JsUndefined]
NoCalls == <<>>

\* the closure of the timeout the reconciliation effect sets
ReconClosure(lines, logic) == [text |-> lines, aiLogic |-> logic]
\* the closure of () => callLocalLLM(text)
LlmClosure(lines) == [text |-> lines]

\* variant of the cleanup that leaves the timeout pending
KeepTimeout(timers, tm) == timers
\* the cleanup of an effect: clearTimeout of the timeout its last run set
clearTimeout(timers, tm) == timers \ {tm}
setTimeout(timers, tm) == timers \cup {tm}
\* a dependency changed: the cleanup of the last run, then the effect again
RunEffect(timers, last, tm) == setTimeout(clearTimeout(timers, last), tm)

\* the closure of the timeout the auto-save effect sets
SaveClosure(lines, logic) == [text |-> lines, aiLogic |-> logic]
\* saveTimeoutRef.current before the effect set a timeout
NoTimeout == [none |-> TRUE]
\* the auto-save effect after a render in which one of its dependencies
\* changed: the cleanup its last run returned, then its body
SaveEffect(timers, ref, cleanup, unsaved, tm) ==
  LET WithCleared(cleared) ==
        IF ~unsaved
        THEN [timers |-> cleared, ref |-> ref, cleanup |-> FALSE]
        ELSE [timers |-> setTimeout(clearTimeout(cleared, ref), tm), ref |-> tm,
              cleanup |-> TRUE]
  IN WithCleared(IF cleanup THEN clearTimeout(timers, ref) ELSE timers)
\* db.files.update(id, updates) of saveFile
saveFile(content, logic) == [content |-> content, aiLogic |-> logic]

\* the file the initialization opened: its content is the text, nothing is
\* unsaved and the auto-save effect returned early
InitSave ==
  /\ hasUnsavedChanges = FALSE
  /\ saveStatus = "saved"
  /\ saveTimer = {}
  /\ saveTimeoutRef = NoTimeout
  /\ saveCleanup = FALSE
  /\ saving = {}
  /\ stored = saveFile(text, aiLogic)

Tab(id, active) == [id |-> id, active |-> active]
NoModal == [type |-> "none"]

\* the initialization effect on a database of one file: the file is the
\* current one and has the only tab
InitFiles ==
  /\ files = <<1>>
  /\ tabs = <<Tab(1, TRUE)>>
  /\ currentFileId = 1
  /\ modalConfig = NoModal
  /\ closing = {}
  /\ deleting = {}
  /\ dbFiles = {1}

\* db.logs of a new database, no addLog called
InitLogs ==
  /\ logs = {}
  /\ nextLogId = 1
  /\ logCalls = <<>>

\* the useState initial values, both effects scheduled by the first render
InitUi ==
  /\ loading = FALSE
  /\ serverStatus = "unknown"
  /\ lastOutput = [call |-> 0, raw |-> NoContent, parsed |-> FALSE]
  /\ reconTimer = {ReconClosure(text, aiLogic)}
  /\ llmTimer = {LlmClosure(text)}
  /\ calls = NoCalls
  /\ edits = 0
  /\ InitSave

\* the reconciliation callback has not started
InitCallback ==
  /\ pc = "start"
  /\ localResults = NoResults
  /\ finalResults = NoResults
  /\ currentValues = NoValues
  /\ variableValues = <<>>
  /\ changed = FALSE
  /\ iterations = 0

\* evaluateDocument has not been invoked
InitEvaluator ==
  /\ evalText = <<>>
  /\ evalI = 0
  /\ evalSt = [mathScope |-> <<>>, fullScope |-> <<>>, variableLines |-> <<>>,
               lineValues |-> <<>>, lineTags |-> <<>>, results |-> NoResults]
  /\ evalRunning = FALSE
  /\ evalReturned = NoReturn
  /\ runs = 0
  /\ firstText = <<>>
  /\ firstReturned = NoReturn
  /\ otherRuns = 0

\* ------------------------------------------------------------------------
\* SpecRecon: one run of the reconciliation callback, pass by pass
\* ------------------------------------------------------------------------
InitRecon ==
  /\ text \in Docs
  /\ aiLogic \in AiMaps(text, Len(text))
  /\ computedResults = NoResults
  /\ InitUi
  /\ InitCallback
  /\ InitEvaluator
  /\ InitLogs
  /\ InitFiles

\* evaluateDocument(text) and the first lines.forEach; then "let changed =
\* true; let iterations = 0"
DoFirstPass ==
  /\ pc = "start"
  /\ \E ev \in {evaluateDocument(text)} :
       /\ localResults' = ev.results
       /\ SetRs(MergeFrom(Seed(ev), text, aiLogic))
  /\ iterations' = 0
  /\ pc' = "sums"
  /\ UNCHANGED <<storeVars, text, aiLogic, computedResults, uiVars, evalVars>>

\* one iteration of the RECALCULATE SUMS loop
DoSumPass ==
  /\ pc = "sums"
  /\ changed /\ iterations < maxIterations
  /\ SetRs(SumPass(Rs, text))
  /\ iterations' = iterations + 1
  /\ UNCHANGED <<storeVars, text, aiLogic, computedResults, pc, localResults, uiVars, evalVars>>

\* the loop condition fails; "changed = true; iterations = 0"
EndSumLoop ==
  /\ pc = "sums"
  /\ ~(changed /\ iterations < maxIterations)
  /\ changed' = TRUE
  /\ iterations' = 0
  /\ pc' = "ai"
  /\ UNCHANGED <<storeVars, text, aiLogic, computedResults, localResults, finalResults,
                 currentValues, variableValues, uiVars, evalVars>>

\* one iteration of the iterative AI loop
DoAiPass ==
  /\ pc = "ai"
  /\ changed /\ iterations < maxIterations
  /\ SetRs(AiPass(Rs, text, aiLogic))
  /\ iterations' = iterations + 1
  /\ UNCHANGED <<storeVars, text, aiLogic, computedResults, pc, localResults, uiVars, evalVars>>

\* the loop condition fails; setComputedResults(finalResults)
Publish ==
  /\ pc = "ai"
  /\ ~(changed /\ iterations < maxIterations)
  /\ computedResults' = finalResults
  /\ pc' = "done"
  /\ UNCHANGED <<storeVars, text, aiLogic, localResults, finalResults, currentValues,
                 variableValues, changed, iterations, uiVars, evalVars>>

NextRecon == DoFirstPass \/ DoSumPass \/ EndSumLoop \/ DoAiPass \/ Publish

SpecRecon == InitRecon /\ [][NextRecon]_vars

\* ------------------------------------------------------------------------
\* SpecEval: invocations of evaluateDocument, line by line
\* ------------------------------------------------------------------------
\* entry: const lines = fullText.split('\n') and the fresh structures
StartEval ==
  /\ ~evalRunning
  /\ runs < MaxRuns
  /\ \E t \in EvalDocs : evalText' = t
  /\ evalI' = 0
  /\ evalSt' = EvalFresh
  /\ evalRunning' = TRUE
  /\ evalReturned' = NoReturn
  /\ runs' = runs + 1
  /\ UNCHANGED <<storeVars, text, aiLogic, computedResults, uiVars, reconVars, firstText,
                 firstReturned, otherRuns>>

\* one iteration of the for loop
EvalStep ==
  /\ evalRunning
  /\ evalI < Len(evalText)
  /\ evalSt' = EvalLine(evalSt, evalText, evalI)
  /\ evalI' = evalI + 1
  /\ UNCHANGED <<storeVars, text, aiLogic, computedResults, uiVars, reconVars, evalText,
                 evalRunning, evalReturned, runs, firstText, firstReturned, otherRuns>>

\* return { results, variables: fullScope, variableLines }
EvalReturn ==
  /\ evalRunning
  /\ evalI = Len(evalText)
  /\ evalRunning' = FALSE
  /\ evalReturned' = [results |-> evalSt.results, variables |-> evalSt.fullScope,
                      variableLines |-> evalSt.variableLines]
  /\ IF runs = 1
     THEN firstText' = evalText /\ firstReturned' = evalReturned' /\ otherRuns' = otherRuns
     ELSE /\ UNCHANGED <<firstText, firstReturned>>
          /\ otherRuns' = IF evalText # firstText THEN otherRuns + 1 ELSE otherRuns
  /\ UNCHANGED <<storeVars, text, aiLogic, computedResults, uiVars, reconVars, evalText, evalI,
                 evalSt, runs>>

InitEval ==
  /\ text = <<LnBlank>>
  /\ aiLogic = NoAi
  /\ computedResults = NoResults
  /\ InitUi
  /\ InitCallback
  /\ InitEvaluator
  /\ InitLogs
  /\ InitFiles

NextEval == StartEval \/ EvalStep \/ EvalReturn

SpecEval == InitEval /\ [][NextEval]_vars

\* ------------------------------------------------------------------------
\* Spec: the component; text changes, the two debounced effects and the
\* asynchronous callLocalLLM
\* ------------------------------------------------------------------------
Call(p, lines, docId, linesHash, after, llmInput) ==
  [pc |-> p, text |-> lines, docId |-> docId, linesHash |-> linesHash, after |-> after,
   llmInput |-> llmInput]
NoPayload == [lines |-> <<>>, variables |-> <<>>]
Finished == Call("done", <<>>, 0, <<>>, "", NoPayload)

Init ==
  /\ text = <<LnBlank>>
  /\ aiLogic = NoAi
  /\ computedResults = NoResults
  /\ InitUi
  /\ InitCallback
  /\ InitEvaluator
  /\ InitLogs
  /\ InitFiles

\* a render in which text or aiLogic changed runs the auto-save effect
RunSaveEffect(unsaved, tm) ==
  \E r \in {SaveEffect(saveTimer, saveTimeoutRef, saveCleanup, unsaved, tm)} :
    /\ saveTimer' = r.timers
    /\ saveTimeoutRef' = r.ref
    /\ saveCleanup' = r.cleanup

\* handleTextChange: setText, setHasUnsavedChanges(true), setSaveStatus('unsaved');
\* the three effects depend on text and are scheduled anew
handleTextChange ==
  /\ edits < MaxEdits
  /\ \E t \in TextPool \ {text} : text' = t
  /\ edits' = edits + 1
  /\ reconTimer' = RunEffect(reconTimer, ReconClosure(text, aiLogic),
                            ReconClosure(text', aiLogic))
  /\ llmTimer' = RunEffect(llmTimer, LlmClosure(text), LlmClosure(text'))
  /\ hasUnsavedChanges' = TRUE
  /\ saveStatus' = "unsaved"
  /\ RunSaveEffect(TRUE, SaveClosure(text', aiLogic))
  /\ UNCHANGED <<logVars, fileVars, saving, stored, aiLogic, computedResults, loading,
                 serverStatus, lastOutput, calls, reconVars, evalVars>>

\* the 100 ms timeout fires: the whole callback, then setComputedResults
ReconTimeout ==
  /\ \E tm \in reconTimer :
       /\ reconTimer' = reconTimer \ {tm}
       /\ computedResults' = Reconcile(tm.text, tm.aiLogic)
  /\ UNCHANGED <<storeVars, text, aiLogic, loading, serverStatus, lastOutput, llmTimer, calls,
                 edits, reconVars, evalVars>>

\* the 800 ms timeout fires on a blank text: setAiLogic({}) schedules the
\* reconciliation effect
CallLocalLLMBlank ==
  /\ \E tm \in llmTimer :
       /\ IsBlankText(tm.text)
       /\ llmTimer' = llmTimer \ {tm}
  /\ aiLogic' = NoAi
  /\ serverStatus' = "unknown"
  /\ reconTimer' = RunEffect(reconTimer, ReconClosure(text, aiLogic), ReconClosure(text, NoAi))
  /\ RunSaveEffect(hasUnsavedChanges, SaveClosure(text, NoAi))
  /\ UNCHANGED <<logVars, fileVars, hasUnsavedChanges, saveStatus, saving, stored, text,
                 computedResults, loading, lastOutput, calls, edits, reconVars, evalVars>>

\* the 800 ms timeout fires: callLocalLLM(text) up to "await fetch"; the
\* payload and its hash are computed from the text of the call
CallLocalLLM ==
  /\ Len(calls) < MaxCalls
  /\ \E tm \in llmTimer :
       /\ ~IsBlankText(tm.text)
       /\ llmTimer' = llmTimer \ {tm}
       /\ \E payload \in {Payload(tm.text)} :
            calls' = Append(calls, Call("fetch", tm.text, generateUUID(Len(calls) + 1),
                                        computeInfoHash(payload), "", payload))
  /\ loading' = TRUE
  /\ serverStatus' = "connecting..."
  /\ UNCHANGED <<storeVars, text, aiLogic, computedResults, lastOutput, reconTimer, edits,
                 reconVars, evalVars>>

\* fetch resolves with response.ok: "await response.json()"
FetchOk ==
  \E id \in DOMAIN calls :
    /\ calls[id].pc = "fetch"
    /\ calls' = [calls EXCEPT ![id].pc = "json"]
    /\ UNCHANGED <<storeVars, text, aiLogic, computedResults, loading, serverStatus, lastOutput,
                   reconTimer, llmTimer, edits, reconVars, evalVars>>

\* variant of the outer catch that drops the rewrites held in aiLogic
FetchFailClears ==
  \E id \in DOMAIN calls :
    /\ calls[id].pc \in {"fetch", "json"}
    /\ serverStatus' = "error"
    /\ aiLogic' = NoAi
    /\ calls' = [calls EXCEPT ![id].pc = "log", ![id].after = "finish"]
    /\ UNCHANGED <<storeVars, text, computedResults, loading, lastOutput, reconTimer, llmTimer,
                   edits, reconVars, evalVars>>

\* fetch rejects, response.ok is false or response.json() rejects: the outer
\* catch, up to "await addLog"
FetchFail ==
  \E id \in DOMAIN calls :
    /\ calls[id].pc \in {"fetch", "json"}
    /\ serverStatus' = "error"
    /\ calls' = [calls EXCEPT ![id].pc = "log", ![id].after = "finish"]
    /\ UNCHANGED <<storeVars, text, aiLogic, computedResults, loading, lastOutput, reconTimer,
                   llmTimer, edits, reconVars, evalVars>>

\* the message contents the server may return to a request
Contents(call) ==
  {NoContent, [empty |-> FALSE, json |-> FALSE, value |-> JsUndefined]} \cup
  {[empty |-> FALSE, json |-> TRUE, value |-> v] :
     v \in {JsNull, JsString, JsObject(JsUndefined, ResultsObject(NoAi))} \cup
           {JsObject(Meta(d, h), r) :
              d \in {call.docId, 0}, h \in {call.linesHash, <<"0">>},
              r \in {JsUndefined, JsString} \cup
                    {ResultsObject(m) : m \in ResponseMaps(call.text)}}}

\* response.json() resolves: from const textResult to the first "await
\* addLog", or to the end when the content is empty
JsonDone ==
  \E id \in DOMAIN calls :
    /\ calls[id].pc = "json"
    /\ \E content \in Contents(calls[id]) :
         LET validation == validateAiResponseSchema(content.value, calls[id].docId,
                                                    calls[id].linesHash)
             accepted == ~content.empty /\ content.json /\ validation.valid
         IN /\ lastOutput' = [call |-> id, raw |-> content, parsed |-> accepted]
            /\ serverStatus' = IF content.empty THEN serverStatus ELSE "connected"
            /\ aiLogic' = IF accepted THEN content.value.results.v ELSE aiLogic
            /\ reconTimer' = IF accepted
                              THEN RunEffect(reconTimer, ReconClosure(text, aiLogic),
                                             ReconClosure(text, aiLogic'))
                              ELSE reconTimer
            /\ hasUnsavedChanges' = (accepted \/ hasUnsavedChanges)
            /\ IF accepted
               THEN RunSaveEffect(TRUE, SaveClosure(text, aiLogic'))
               ELSE UNCHANGED <<saveTimer, saveTimeoutRef, saveCleanup>>
            /\ loading' = IF content.empty THEN FALSE ELSE loading
            /\ calls' = [calls EXCEPT ![id] =
                           IF content.empty THEN Finished
                           ELSE [@ EXCEPT !.pc = "log",
                                          !.after = IF content.json /\ ~validation.valid
                                                    THEN "return" ELSE "finish"]]
    /\ UNCHANGED <<logVars, fileVars, saveStatus, saving, stored, text, computedResults, llmTimer,
                   edits, reconVars, evalVars>>

\* addLog resolves: setLoading(false), unless the rejection returned
LogDone ==
  \E id \in DOMAIN calls :
    /\ calls[id].pc = "log"
    /\ loading' = IF calls[id].after = "finish" THEN FALSE ELSE loading
    /\ calls' = [calls EXCEPT ![id] = Finished]
    /\ UNCHANGED <<storeVars, text, aiLogic, computedResults, serverStatus, lastOutput, reconTimer,
                   llmTimer, edits, reconVars, evalVars>>

Next ==
  \/ handleTextChange
  \/ ReconTimeout
  \/ CallLocalLLMBlank
  \/ CallLocalLLM
  \/ FetchOk
  \/ FetchFail
  \/ JsonDone
  \/ LogDone

Spec == Init /\ [][Next]_vars

\* ------------------------------------------------------------------------
\* SpecSave: text changes, the 2 s auto-save timeout, the asynchronous
\* saveFile, and callLocalLLM on an empty text, which sets aiLogic anew
\* ------------------------------------------------------------------------
Save(p, tm) == [pc |-> p, text |-> tm.text, aiLogic |-> tm.aiLogic]

\* the 2 s timeout fires: setSaveStatus('saving'), up to "await saveFile"
AutoSaveTimeout ==
  /\ \E tm \in saveTimer :
       /\ saveTimer' = saveTimer \ {tm}
       /\ saving' = saving \cup {Save("update", tm)}
  /\ saveStatus' = "saving"
  /\ UNCHANGED <<logVars, fileVars, hasUnsavedChanges, saveTimeoutRef, saveCleanup, stored, text,
                 aiLogic, computedResults, uiVars, reconVars, evalVars>>

\* saveFile: db.files.update writes the content and the aiLogic of the closure
SaveFileUpdate ==
  /\ \E sv \in saving :
       /\ sv.pc = "update"
       /\ stored' = saveFile(sv.text, sv.aiLogic)
       /\ saving' = (saving \ {sv}) \cup {Save("resume", sv)}
  /\ UNCHANGED <<logVars, fileVars, hasUnsavedChanges, saveStatus, saveTimer, saveTimeoutRef,
                 saveCleanup, text, aiLogic, computedResults, uiVars, reconVars, evalVars>>

\* saveFile resolves: setSaveStatus('saved'), setHasUnsavedChanges(false); the
\* effect depends on hasUnsavedChanges and runs again when it changed
SaveResume ==
  /\ \E sv \in saving :
       /\ sv.pc = "resume"
       /\ saving' = saving \ {sv}
  /\ saveStatus' = "saved"
  /\ hasUnsavedChanges' = FALSE
  /\ IF hasUnsavedChanges
     THEN RunSaveEffect(FALSE, SaveClosure(text, aiLogic))
     ELSE UNCHANGED <<saveTimer, saveTimeoutRef, saveCleanup>>
  /\ UNCHANGED <<logVars, fileVars, stored, text, aiLogic, computedResults, uiVars, reconVars,
                 evalVars>>

NextSave ==
  \/ handleTextChange
  \/ CallLocalLLMBlank
  \/ AutoSaveTimeout
  \/ SaveFileUpdate
  \/ SaveResume

SpecSave == Init /\ [][NextSave]_vars

\* ------------------------------------------------------------------------
\* SpecLog: invocations of addLog by concurrent handlers; every await of a
\* Dexie operation is a step
\* ------------------------------------------------------------------------
MAX_LOGS == 100
MaxLogCalls == 3

LogCall(p, count, oldest) == [pc |-> p, count |-> count, oldest |-> oldest]
\* orderBy('id').first(): the row of the least id, undefined for an empty table
FirstById(rows) == IF rows = {} THEN 0 ELSE CHOOSE r \in rows : \A q \in rows : r <= q

\* a database that earlier sessions filled by addLog calls one after the
\* other: it holds the newest rows, at most MAX_LOGS of them
InitLog ==
  /\ text = <<LnBlank>>
  /\ aiLogic = NoAi
  /\ computedResults = NoResults
  /\ InitUi
  /\ InitCallback
  /\ InitEvaluator
  /\ InitFiles
  /\ \E n \in (MAX_LOGS - 2)..MAX_LOGS :
       /\ logs = 1..n
       /\ nextLogId = n + 1
  /\ logCalls = <<>>

\* a handler calls addLog: db.logs.add is requested
AddLogCall ==
  /\ Len(logCalls) < MaxLogCalls
  /\ logCalls' = Append(logCalls, LogCall("add", 0, 0))
  /\ UNCHANGED <<logs, nextLogId, saveVars, fileVars, text, aiLogic, computedResults, uiVars,
                 reconVars, evalVars>>

\* db.logs.add inserts the row; db.logs.count is requested
LogAdd ==
  /\ \E id \in DOMAIN logCalls :
       /\ logCalls[id].pc = "add"
       /\ logCalls' = [logCalls EXCEPT ![id].pc = "count"]
  /\ logs' = logs \cup {nextLogId}
  /\ nextLogId' = nextLogId + 1
  /\ UNCHANGED <<saveVars, fileVars, text, aiLogic, computedResults, uiVars, reconVars, evalVars>>

\* db.logs.count resolves: if (count > MAX_LOGS) the oldest row is requested
LogCount ==
  /\ \E id \in DOMAIN logCalls :
       /\ logCalls[id].pc = "count"
       /\ logCalls' = [logCalls EXCEPT ![id] =
                         LogCall(IF Cardinality(logs) > MAX_LOGS THEN "first" ELSE "done",
                                 Cardinality(logs), 0)]
  /\ UNCHANGED <<logs, nextLogId, saveVars, fileVars, text, aiLogic, computedResults, uiVars,
                 reconVars, evalVars>>

\* orderBy('id').first() resolves: if (oldest) its deletion is requested
LogFirst ==
  /\ \E id \in DOMAIN logCalls :
       /\ logCalls[id].pc = "first"
       /\ logCalls' = [logCalls EXCEPT ![id] =
                         LogCall(IF logs = {} THEN "done" ELSE "delete", @.count,
                                 FirstById(logs))]
  /\ UNCHANGED <<logs, nextLogId, saveVars, fileVars, text, aiLogic, computedResults, uiVars,
                 reconVars, evalVars>>

\* db.logs.delete(oldest.id) removes the row if it is still there; addLog returns
LogDelete ==
  /\ \E id \in DOMAIN logCalls :
       /\ logCalls[id].pc = "delete"
       /\ logs' = logs \ {logCalls[id].oldest}
       /\ logCalls' = [logCalls EXCEPT ![id].pc = "done"]
  /\ UNCHANGED <<nextLogId, saveVars, fileVars, text, aiLogic, computedResults, uiVars, reconVars,
                 evalVars>>

NextLog ==
  \/ AddLogCall
  \/ LogAdd
  \/ LogCount
  \/ LogFirst
  \/ LogDelete

SpecLog == InitLog /\ [][NextLog]_vars

\* ------------------------------------------------------------------------
\* SpecFiles: openFile, closeTab and handleDeleteFile with its confirmation
\* modal; every await of getFile and deleteFile is a step.  The modal covers
\* the window, so the three operations start only while no modal is shown.
\* ------------------------------------------------------------------------
MaxFiles == 2
\* number of closeTab invocations, and of onConfirm invocations, awaiting at
\* the same time
MaxPending == 1

\* the content of the stored files; none has an aiLogic
FileContent(id) == IF id % 2 = 1 THEN <<LnBlank>> ELSE <<LnLines>>

TabIds(tbs) == {tbs[i].id : i \in DOMAIN tbs}
\* tabs.filter(t => t.id !== id)
WithoutTab(tbs, id) == SelectSeq(tbs, LAMBDA t : t.id # id)
\* tabs.map(t => ({...t, active: t.id === id}))
Activate(tbs, id) == [i \in DOMAIN tbs |-> Tab(tbs[i].id, tbs[i].id = id)]
\* tabs.map(t => ({...t, active: false}))
Deactivate(tbs) == [i \in DOMAIN tbs |-> Tab(tbs[i].id, FALSE)]
\* files.filter(f => f.id !== id)
WithoutFile(fs, id) == SelectSeq(fs, LAMBDA f : f # id)

ConfirmModal(fileId, fs, current) ==
  [type |-> "confirm", fileId |-> fileId, files |-> fs, currentFileId |-> current]
AlertModal == [type |-> "alert"]
Closing(p, id, found) == [pc |-> p, id |-> id, found |-> found]
Deleting(p, id) == [pc |-> p, id |-> id]

loadVars == <<text, aiLogic, currentFileId, reconTimer, llmTimer, saveTimer, saveTimeoutRef,
              saveCleanup, stored>>
restVars == <<loading, serverStatus, lastOutput, calls, edits, hasUnsavedChanges, saveStatus,
              saving, reconVars, evalVars, logVars>>

\* setCurrentFileId(id), setText(content), setAiLogic({}) and the effects
\* that depend on them
LoadFile(id, content) ==
  /\ currentFileId' = id
  /\ text' = content
  /\ aiLogic' = NoAi
  /\ reconTimer' = RunEffect(reconTimer, ReconClosure(text, aiLogic), ReconClosure(content, NoAi))
  /\ llmTimer' = IF content # text
                 THEN RunEffect(llmTimer, LlmClosure(text), LlmClosure(content))
                 ELSE llmTimer
  /\ RunSaveEffect(hasUnsavedChanges, SaveClosure(content, NoAi))
  /\ stored' = saveFile(content, NoAi)

\* a database that earlier sessions left with up to MaxFiles files; the
\* initialization effect opens the first one in the only tab
InitTabs ==
  /\ text = FileContent(1)
  /\ aiLogic = NoAi
  /\ computedResults = NoResults
  /\ InitUi
  /\ InitCallback
  /\ InitEvaluator
  /\ InitLogs
  /\ \E n \in 1..MaxFiles :
       /\ files = [i \in 1..n |-> i]
       /\ dbFiles = 1..n
  /\ tabs = <<Tab(1, TRUE)>>
  /\ currentFileId = 1
  /\ modalConfig = NoModal
  /\ closing = {}
  /\ deleting = {}

\* openFile(file) for a file of the list
openFile ==
  /\ modalConfig = NoModal
  /\ \E i \in DOMAIN files :
       /\ tabs' = IF files[i] \notin TabIds(tabs)
                  THEN Append(Deactivate(tabs), Tab(files[i], TRUE))
                  ELSE Activate(tabs, files[i])
       /\ LoadFile(files[i], FileContent(files[i]))
  /\ UNCHANGED <<files, modalConfig, closing, deleting, dbFiles, computedResults, restVars>>

\* closeTab(e, id) up to its return or to "await getFile"
closeTab ==
  /\ modalConfig = NoModal
  /\ \E id \in TabIds(tabs) :
       \E remainingTabs \in {WithoutTab(tabs, id)} :
         IF Len(remainingTabs) = 0
         THEN UNCHANGED <<tabs, closing>>
         ELSE IF id = currentFileId
         THEN /\ Cardinality(closing) < MaxPending
              /\ tabs' = Activate(remainingTabs, remainingTabs[Len(remainingTabs)].id)
              /\ closing' = closing \cup
                              {Closing("get", remainingTabs[Len(remainingTabs)].id, FALSE)}
         ELSE /\ tabs' = remainingTabs
              /\ UNCHANGED closing
  /\ UNCHANGED <<files, modalConfig, deleting, dbFiles, computedResults, loadVars, restVars>>

\* getFile: db.files.get(id) reads the row
GetFile ==
  /\ \E c \in closing :
       /\ c.pc = "get"
       /\ closing' = (closing \ {c}) \cup {Closing("resume", c.id, c.id \in dbFiles)}
  /\ UNCHANGED <<files, tabs, modalConfig, deleting, dbFiles, computedResults, loadVars,
                 restVars>>

\* closeTab after "await getFile": if (file) the state is set from it
CloseTabResume ==
  /\ \E c \in closing :
       /\ c.pc = "resume"
       /\ closing' = closing \ {c}
       /\ IF c.found THEN LoadFile(c.id, FileContent(c.id)) ELSE UNCHANGED loadVars
  /\ UNCHANGED <<files, tabs, modalConfig, deleting, dbFiles, computedResults, restVars>>

\* handleDeleteFile for the file of the context menu: the alert for the only
\* file, else the confirmation, whose onConfirm closes over files and
\* currentFileId
handleDeleteFile ==
  /\ modalConfig = NoModal
  /\ \E i \in DOMAIN files :
       modalConfig' = IF Len(files) <= 1 THEN AlertModal
                      ELSE ConfirmModal(files[i], files, currentFileId)
  /\ UNCHANGED <<files, tabs, closing, deleting, dbFiles, computedResults, loadVars, restVars>>

\* onCancel of either modal, onConfirm of the alert: setModalConfig(null)
CloseModal ==
  /\ modalConfig # NoModal
  /\ modalConfig' = NoModal
  /\ UNCHANGED <<files, tabs, closing, deleting, dbFiles, computedResults, loadVars, restVars>>

\* onConfirm of the confirmation up to "await deleteFile"
ConfirmDelete ==
  /\ modalConfig.type = "confirm"
  /\ Cardinality(deleting) < MaxPending
  /\ \E fileId \in {modalConfig.fileId}, remaining \in {WithoutFile(modalConfig.files,
                                                                    modalConfig.fileId)} :
       /\ IF modalConfig.currentFileId = fileId
          THEN IF Len(remaining) > 0
               THEN /\ LoadFile(remaining[1], FileContent(remaining[1]))
                    /\ computedResults' = NoResults
                    /\ tabs' = IF remaining[1] \notin TabIds(WithoutTab(tabs, fileId))
                               THEN Append(WithoutTab(tabs, fileId), Tab(remaining[1], TRUE))
                               ELSE Activate(WithoutTab(tabs, fileId), remaining[1])
               ELSE UNCHANGED <<loadVars, computedResults, tabs>>
          ELSE /\ tabs' = WithoutTab(tabs, fileId)
               /\ UNCHANGED <<loadVars, computedResults>>
       /\ deleting' = deleting \cup {Deleting("delete", fileId)}
  /\ UNCHANGED <<files, modalConfig, closing, dbFiles, restVars>>

\* deleteFile: db.files.delete(id) removes the row
DeleteFileDb ==
  /\ \E d \in deleting :
       /\ d.pc = "delete"
       /\ dbFiles' = dbFiles \ {d.id}
       /\ deleting' = (deleting \ {d}) \cup {Deleting("resume", d.id)}
  /\ UNCHANGED <<files, tabs, modalConfig, closing, computedResults, loadVars, restVars>>

\* onConfirm after "await deleteFile": setFiles(prev => ...), setModalConfig(null)
DeleteResume ==
  /\ \E d \in deleting :
       /\ d.pc = "resume"
       /\ files' = WithoutFile(files, d.id)
       /\ deleting' = deleting \ {d}
  /\ modalConfig' = NoModal
  /\ UNCHANGED <<tabs, closing, dbFiles, computedResults, loadVars, restVars>>

NextFiles ==
  \/ openFile
  \/ closeTab
  \/ GetFile
  \/ CloseTabResume
  \/ handleDeleteFile
  \/ CloseModal
  \/ ConfirmDelete
  \/ DeleteFileDb
  \/ DeleteResume

SpecFiles == InitTabs /\ [][NextFiles]_vars


\* ------------------------------------------------------------------------
\* Properties of the reconciliation (SpecRecon)
\* ------------------------------------------------------------------------
\* the tag of a `sum: tag` line as the reconciliation reads it, else empty
SumTagOf(line) == Trim(ToLower(SumMatch(Trim(line))))
IsSumLine(line) == SumMatch(Trim(line)) # <<>>
LineIdx == 0..(Len(text) - 1)
HasFinite(results, idx) == HasKey(results, idx) /\ IsFinite(results[idx].value)
HasAiValue(results, idx) == HasFinite(results, idx) /\ results[idx].source = "ai"

\* C1 (as claimed): after the reconciliation every line that evaluateDocument
\* resolved locally has an entry with source 'local' in the published result
\* set, whatever rewrite aiLogic holds for it; when the line is no `sum: tag`
\* line the entry also has the local value.
C1_LocalPrecedence ==
  pc = "done" =>
    \A idx \in DOMAIN localResults :
      /\ HasKey(computedResults, idx)
      /\ computedResults[idx].source = "local"
      /\ ~IsSumLine(text[idx + 1]) => computedResults[idx].value = localResults[idx].value

FirstSumLine(idx) ==
  /\ IsSumLine(text[idx + 1])
  /\ \A j \in 0..(idx - 1) : ~(IsSumLine(text[j + 1]) /\ SumTagOf(text[j + 1]) = SumTagOf(text[idx + 1]))

PublishedTagSum(idx) ==
  SumFinal([finalResults |-> computedResults], text, SumTagOf(text[idx + 1]), idx).sum

\* C4 (as claimed): in the published result set the value of the first
\* `sum: T` line of every tag T is the sum of the final finite values of the
\* lines before it that carry tag T.
C4_TagSumAfterReconciliation ==
  pc = "done" =>
    \A idx \in LineIdx :
      FirstSumLine(idx) =>
        HasKey(computedResults, idx) /\ computedResults[idx].value = Num(PublishedTagSum(idx))

\* sum of the finite local values of the lines before idx whose #T or tag: T
\* annotation is the tag
RECURSIVE AnnotatedSum(_, _, _, _)
AnnotatedSum(lines, results, tag, n) ==
  IF n = 0 THEN 0
  ELSE AnnotatedSum(lines, results, tag, n - 1) +
       (IF extractTag(lines[n]) = tag /\ HasFinite(results, n - 1) THEN results[n - 1].value.n ELSE 0)

IsLocalSumLine(line) == SumMatch(stripInlineComment(Trim(line))) # <<>>
LocalSumTag(line) == ToLower(SumMatch(stripInlineComment(Trim(line))))

\* C5 (as claimed): every `sum: T` line of evaluateDocument has the sum of the
\* finite values of the lines strictly before it that are annotated with T; an
\* earlier `sum: T` line is no contributor.
C5_LocalSumOfAnnotatedLines ==
  pc # "start" =>
    \A idx \in LineIdx :
      IsLocalSumLine(text[idx + 1]) =>
        /\ HasKey(localResults, idx)
        /\ localResults[idx].value =
             Num(AnnotatedSum(text, localResults, LocalSumTag(text[idx + 1]), idx))

\* the rewrite text of an item, as both passes read it
RawFormulaOf(aiItem) == IF aiItem.rhs # <<>> THEN aiItem.rhs ELSE aiItem.formula

\* the rewrite of line idx names, after normalization, the variable of its line
SelfRef(idx, formula) ==
  /\ LineVarName(text[idx + 1]) # <<>>
  /\ formula # <<>>
  /\ Includes(NormalizeAlnum(formula), NormalizeAlnum(LineVarName(text[idx + 1])))

\* C6 (as claimed): a rewrite whose right-hand side, normalized, contains the
\* normalized name of the variable of its line is rejected by
\* validateAiFormula, and no pass records a value with source 'ai' for the line.
C6_NoSelfReferenceAsClaimed ==
  \A idx \in DOMAIN aiLogic :
    SelfRef(idx, RawFormulaOf(aiLogic[idx])) =>
      /\ ~validateAiFormula(RawFormulaOf(aiLogic[idx]), LineVarName(text[idx + 1]), variableValues)
      /\ ~HasAiValue(finalResults, idx)

\* C6 (amended): the same for the text both passes validate and evaluate, the
\* right-hand side with everything up to its first '=' removed.
C6_NoSelfReference ==
  \A idx \in DOMAIN aiLogic :
    SelfRef(idx, AfterEquals(RawFormulaOf(aiLogic[idx]))) =>
      /\ ~validateAiFormula(AfterEquals(RawFormulaOf(aiLogic[idx])), LineVarName(text[idx + 1]),
                            variableValues)
      /\ ~HasAiValue(finalResults, idx)

C6_Witness ==
  /\ pc = "done"
  /\ \E idx \in DOMAIN aiLogic :
       /\ aiLogic[idx].kind = "rewrite"
       /\ SelfRef(idx, AfterEquals(RawFormulaOf(aiLogic[idx])))
       /\ ~HasKey(localResults, idx)
       /\ ~HasKey(computedResults, idx)

\* name occurs in the formula as a whole word
Mentions(formula, name) == name # <<>> /\ ReplaceWord(formula, name, <<"1">>, TRUE) # formula

\* lines i and j define different variables that no other line defines, hold
\* rewrites that refer to each other's variable, and neither line is resolved
\* locally
CyclicPair(i, j) ==
  /\ i # j
  /\ NormalizeAlnum(LineVarName(text[i + 1])) # NormalizeAlnum(LineVarName(text[j + 1]))
  /\ \A k \in LineIdx \ {i, j} :
       NormalizeAlnum(LineVarName(text[k + 1])) \notin
         {NormalizeAlnum(LineVarName(text[i + 1])), NormalizeAlnum(LineVarName(text[j + 1]))}
  /\ HasKey(aiLogic, i) /\ HasKey(aiLogic, j)
  /\ aiLogic[i].kind = "rewrite" /\ aiLogic[j].kind = "rewrite"
  /\ Mentions(aiLogic[i].rhs, LineVarName(text[j + 1]))
  /\ Mentions(aiLogic[j].rhs, LineVarName(text[i + 1]))
  /\ ~HasKey(localResults, i) /\ ~HasKey(localResults, j)

\* C7: each of the two loops makes at most 5 passes, and a cyclic pair of
\* rewrites leaves both lines without a value in the published result set.
C7_Termination ==
  /\ iterations <= 5
  /\ pc = "done" =>
       \A i, j \in LineIdx :
         CyclicPair(i, j) => ~HasFinite(computedResults, i) /\ ~HasFinite(computedResults, j)

C7_Witness ==
  /\ pc = "done"
  /\ \E i, j \in LineIdx : CyclicPair(i, j)

ChainRhs(line) ==
  IF line = LnA THEN <<"2">>
  ELSE IF line = LnB THEN <<"A"," ","+"," ","1">>
  ELSE IF line = LnC THEN <<"B"," ","+"," ","1">>
  ELSE <<"C"," ","+"," ","1">>
ChainValue(line) ==
  IF line = LnA THEN 2 ELSE IF line = LnB THEN 3 ELSE IF line = LnC THEN 4 ELSE 5

\* the document is the chain A, B, C, D in some order, each line with the
\* rewrite that refers to the previous link
IsChain ==
  /\ text \in Permutations4(LnA, LnB, LnC, LnD)
  /\ DOMAIN aiLogic = LineIdx
  /\ \A idx \in LineIdx : aiLogic[idx] = Rw(ChainRhs(text[idx + 1]))

\* C8: every line of a chain of 4 rewrites, in whatever order, ends with its
\* finite value with source 'ai', registered under the variable of its line.
C8_ChainResolution ==
  (pc = "done" /\ IsChain) =>
    \A idx \in LineIdx :
      /\ HasAiValue(computedResults, idx)
      /\ computedResults[idx].value = Num(ChainValue(text[idx + 1]))
      /\ MapHas(variableValues, LineVarName(text[idx + 1]))
      /\ MapGet(variableValues, LineVarName(text[idx + 1])) = ChainValue(text[idx + 1])

C8_Witness == pc = "done" /\ IsChain /\ text = <<LnD, LnC, LnB, LnA>>

\* C9 (as claimed): from one pass to the next a line that holds a finite value
\* keeps an entry with the same value, unless it is a `sum: tag` line whose
\* value is replaced by the recomputed sum.
C9_MonotonicReconciliation ==
  [][\A idx \in DOMAIN finalResults :
       IsFinite(finalResults[idx].value) =>
         /\ HasKey(finalResults', idx)
         /\ \/ finalResults'[idx].value = finalResults[idx].value
            \/ /\ IsSumLine(text[idx + 1])
               /\ finalResults'[idx].value =
                    Num(SumFinal([finalResults |-> finalResults'], text, SumTagOf(text[idx + 1]), idx).sum)
    ]_vars

\* ------------------------------------------------------------------------
\* Properties of evaluateDocument (SpecEval)
\* ------------------------------------------------------------------------
\* the results for the line indices below k
Below(results, k) == [i \in {j \in DOMAIN results : j < k} |-> results[i]]

\* the line is "name = expression"
BindsName(line, name) ==
  IndexOf(Trim(line), <<"=">>) > 1 /\
  Trim(SubSeq(Trim(line), 1, IndexOf(Trim(line), <<"=">>) - 1)) = name

\* line indices below i whose binding of the name succeeded
Bindings(results, lines, name, i) ==
  {j \in 0..(i - 1) : BindsName(lines[j + 1], name) /\ j \in DOMAIN results /\
                      results[j].type = "variable"}

Greatest(S) == CHOOSE j \in S : \A k \in S : k <= j

\* the value "x + 1" must have on line i
ReferenceAgrees(results, lines, i) ==
  LET With(bound) ==
        IF bound = {} THEN i \notin DOMAIN results
        ELSE i \in DOMAIN results /\
             results[i].value = Num(results[Greatest(bound)].value.n + 1)
  IN With(Bindings(results, lines, <<"x">>, i))

JsonStep(id) ==
  /\ id \in DOMAIN calls
  /\ calls[id].pc = "json"
  /\ calls'[id].pc # "json"
  /\ lastOutput'.call = id

\* the declarative rejection rule: not an object, no meta, another doc_id,
\* another lines_hash, results missing or no object
IsObject(v) == v.t = "object"
Rejectable(response, docId, linesHash) ==
  \/ ~IsObject(response)
  \/ ~Truthy(response.meta)
  \/ ~IsObject(response.meta)
  \/ response.meta.doc_id # docId
  \/ response.meta.lines_hash # linesHash
  \/ ~IsObject(response.results)

\* the response content is parseable JSON that carries a lines_hash
CarriesHash(content) ==
  /\ ~content.empty /\ content.json
  /\ IsObject(content.value) /\ IsObject(content.value.meta)

\* C2 (as claimed): a response that returns after the text changed, with a
\* lines_hash that is not the fingerprint of the live document, is discarded:
\* aiLogic and the displayed results stay as they were and no reconciliation
\* is scheduled.
C2_StaleResponseRejection ==
  [][\A id \in DOMAIN calls :
       (/\ JsonStep(id)
        /\ text # calls[id].text
        /\ CarriesHash(lastOutput'.raw)
        /\ lastOutput'.raw.value.meta.lines_hash # computeInfoHash(Payload(text)))
       => /\ aiLogic' = aiLogic
          /\ computedResults' = computedResults
          /\ reconTimer' = reconTimer
    ]_vars

\* C3: validateAiResponseSchema rejects exactly the responses of the
\* rejection rule, and a rejected response, like content that is no
\* parseable JSON, leaves aiLogic and computedResults as they were and
\* schedules no reconciliation; an accepted one becomes aiLogic.
C3_SchemaRejection ==
  [][\A id \in DOMAIN calls :
       JsonStep(id) =>
         /\ lastOutput'.raw.json =>
              (~validateAiResponseSchema(lastOutput'.raw.value, calls[id].docId,
                                         calls[id].linesHash).valid
                 <=> Rejectable(lastOutput'.raw.value, calls[id].docId, calls[id].linesHash))
         /\ IF \/ lastOutput'.raw.empty
               \/ ~lastOutput'.raw.json
               \/ Rejectable(lastOutput'.raw.value, calls[id].docId, calls[id].linesHash)
            THEN /\ aiLogic' = aiLogic
                 /\ computedResults' = computedResults
                 /\ reconTimer' = reconTimer
                 /\ ~lastOutput'.parsed
            ELSE /\ aiLogic' = lastOutput'.raw.value.results.v
                 /\ lastOutput'.parsed
    ]_vars

\* a response was rejected by the schema check while rewrites of an earlier,
\* accepted response were in aiLogic
C3_Witness ==
  \E id \in DOMAIN calls :
    /\ calls[id].pc = "log"
    /\ calls[id].after = "return"
    /\ lastOutput.call = id
    /\ Rejectable(lastOutput.raw.value, calls[id].docId, calls[id].linesHash)
    /\ aiLogic # NoAi

\* C12: at most one timeout of each effect is pending, a pending timeout holds
\* the text of the most recent change, and every invocation of callLocalLLM
\* that reaches the request was made with the text of the most recent change.
C12_Debounce ==
  /\ [](/\ Cardinality(reconTimer) <= 1
        /\ Cardinality(llmTimer) <= 1
        /\ \A tm \in llmTimer : tm.text = text
        /\ \A tm \in reconTimer : tm.text = text /\ tm.aiLogic = aiLogic)
  /\ [][Len(calls') > Len(calls) => calls'[Len(calls')].text = text]_vars

\* the text was changed twice within 800 ms, and the request that followed
\* carries the second text, none the first
C12_Witness ==
  /\ edits = 2
  /\ Len(calls) = 1
  /\ calls[1].pc = "fetch"
  /\ calls[1].text = text
  /\ llmTimer = {}

\* the step in which the request of call id fails: fetch rejected, the status
\* was not 2xx, or the body could not be read
FailStep(id) ==
  /\ id \in DOMAIN calls
  /\ calls[id].pc \in {"fetch", "json"}
  /\ calls'[id].pc = "log"
  /\ lastOutput' = lastOutput

\* C13: a failed request sets serverStatus to 'error', is caught inside
\* callLocalLLM (the call goes on to its log entry and to setLoading(false)),
\* and leaves aiLogic and computedResults as they were and schedules no
\* reconciliation, so every displayed value stays.
C13_TransportFailure ==
  [][\A id \in DOMAIN calls :
       FailStep(id) =>
         /\ serverStatus' = "error"
         /\ calls'[id].after = "finish"
         /\ aiLogic' = aiLogic
         /\ computedResults' = computedResults
         /\ reconTimer' = reconTimer
    ]_vars

\* a request failed while the rewrites of an earlier response were in aiLogic
\* and a locally resolved line was displayed
C13_Witness ==
  \E id \in DOMAIN calls :
    /\ calls[id].pc = "log"
    /\ calls[id].after = "finish"
    /\ lastOutput.call # id
    /\ serverStatus = "error"
    /\ aiLogic # NoAi
    /\ 0 \in DOMAIN computedResults

\* the friendly name line j bound with success, empty when it bound none
BoundAt(lines, results, j) ==
  LET Name(trimmed, eq, colon) ==
        IF j \notin DOMAIN results THEN <<>>
        ELSE IF results[j].type = "variable" /\ eq > 1 THEN Trim(SubSeq(trimmed, 1, eq - 1))
        ELSE IF results[j].type = "calc" /\ colon > 1 /\
                results[j].explanation = Trim(SubSeq(trimmed, 1, colon - 1))
        THEN Trim(SubSeq(trimmed, 1, colon - 1))
        ELSE <<>>
      Of(trimmed) == Name(trimmed, IndexOf(trimmed, <<"=">>), IndexOf(trimmed, <<":">>))
  IN Of(Trim(lines[j + 1]))

\* for every friendly name bound with success: the line of its most recent
\* binding and the value bound there
BoundVariables(lines, results) ==
  {[name |-> BoundAt(lines, results, j), line |-> j, value |-> results[j].value.n] :
     j \in {k \in DOMAIN results :
              /\ BoundAt(lines, results, k) # <<>>
              /\ \A m \in DOMAIN results :
                   BoundAt(lines, results, m) = BoundAt(lines, results, k) => m <= k}}

\* the entries of the `variables` map of a payload
SentVariables(variables) ==
  {[name |-> variables[i].name, line |-> variables[i].val.line,
    value |-> variables[i].val.value] : i \in 1..Len(variables)}

\* C14: the payload of every request holds exactly the non-blank lines of its
\* text by line index, and exactly the friendly names bound to a finite value,
\* each with the line of its most recent successful binding and the value
\* bound there.
C14_RequestPayload ==
  \A id \in DOMAIN calls :
    calls[id].pc # "done" =>
      /\ DOMAIN calls[id].llmInput.lines =
           {i \in 0..(Len(calls[id].text) - 1) : Trim(calls[id].text[i + 1]) # <<>>}
      /\ \A i \in DOMAIN calls[id].llmInput.lines :
           calls[id].llmInput.lines[i] = calls[id].text[i + 1]
      /\ SentVariables(calls[id].llmInput.variables) =
           BoundVariables(calls[id].text, evaluateDocument(calls[id].text).results)

\* C15: two requests carry the same lines_hash exactly when their payloads
\* (`lines` and `variables`) are equal.
C15_LinesHashFingerprint ==
  \A i, j \in DOMAIN calls :
    (calls[i].pc # "done" /\ calls[j].pc # "done") =>
      (calls[i].linesHash = calls[j].linesHash <=> calls[i].llmInput = calls[j].llmInput)

\* the line has no local result and its rewrite is the expression
RewrittenAs(idx, expr) ==
  /\ idx \notin DOMAIN localResults
  /\ HasKey(aiLogic, idx)
  /\ aiLogic[idx].kind = "rewrite"
  /\ aiLogic[idx].rhs = expr

\* both names were bound above line idx
BothBound(idx) ==
  /\ Bindings(localResults, text, NameTotal, idx) # {}
  /\ Bindings(localResults, text, NameTotalCost, idx) # {}

\* the value of the longer name plus one
LongerPlusOne(idx) ==
  Num(localResults[Greatest(Bindings(localResults, text, NameTotalCost, idx))].value.n + 1)

\* C16: with "Total" and "Total Cost" both bound, the line "Total Cost + 1"
\* evaluates locally to the value of "Total Cost" plus one, and so does a
\* line whose rewrite is "Total Cost + 1", in every pass of the reconciliation.
C16_LongestNameFirst ==
  pc # "start" =>
    \A idx \in 0..(Len(text) - 1) :
      BothBound(idx) =>
        /\ text[idx + 1] = LnTotCp1 =>
             idx \in DOMAIN localResults /\ localResults[idx].value = LongerPlusOne(idx)
        /\ RewrittenAs(idx, LnTotCp1) =>
             HasKey(finalResults, idx) /\ finalResults[idx].value = LongerPlusOne(idx)

\* "Total" was bound before "Total Cost", and both a local line and a
\* rewrite that mention "Total Cost" were published with 51
C16_Witness ==
  /\ pc = "done"
  /\ text = <<LnTot, LnTotC, LnTotCp1, LnR>>
  /\ RewrittenAs(3, LnTotCp1)
  /\ computedResults[2].value = Num(51)
  /\ computedResults[3].value = Num(51)

\* the item is a rewrite: kind rewrite, or no kind but a formula or format
IsRewriteItem(aiItem) ==
  \/ aiItem.kind = "rewrite"
  \/ aiItem.kind = "" /\ (aiItem.formula # <<>> \/ aiItem.format # <<>>)

\* C17: for a line with no local result, after the first pass and after every
\* pass of the AI-dependency loop, an item of kind header or note has given
\* an entry with null value and source 'ai', and an item that is no rewrite
\* has given no entry with a value.
C17_RewriteKinds ==
  pc # "start" =>
    \A idx \in DOMAIN aiLogic :
      idx \notin DOMAIN localResults =>
        /\ aiLogic[idx].kind \in {"header", "note"} =>
             /\ HasKey(finalResults, idx)
             /\ finalResults[idx].value = Null
             /\ finalResults[idx].source = "ai"
        /\ ~IsRewriteItem(aiLogic[idx]) =>
             (HasKey(finalResults, idx) => finalResults[idx].value = Null)

\* the step is one pass of the AI-dependency loop
AiPassStep == pc = "ai" /\ iterations' = iterations + 1

\* some line has a value after the step that it did not have before
NewValue ==
  \E idx \in DOMAIN finalResults' :
    idx \notin DOMAIN finalResults \/ finalResults'[idx].value # finalResults[idx].value

\* C18: a pass of the AI-dependency loop in which no line obtained a new
\* value ends the loop: it leaves `changed` false.
C18_FixedPointExit ==
  [][(AiPassStep /\ ~NewValue) => ~changed']_vars

\* line j has no local result and a rewrite that is a number, and has got a
\* value
ResolvedByAi(j) ==
  /\ j \notin DOMAIN localResults
  /\ HasKey(aiLogic, j)
  /\ aiLogic[j].kind = "rewrite"
  /\ aiLogic[j].rhs \in {<<"3">>}
  /\ HasKey(computedResults, j)
  /\ IsFinite(computedResults[j].value)

\* C19: when the rewrite of line 0 is "L{1} + 1", or is "Q + 1" and line 1
\* defines Q, and line 1 has its value from a rewrite only, the published
\* value of line 0 is the published value of line 1 plus one.
C19_ForwardDependencies ==
  (pc = "done" /\ Len(text) >= 2 /\ ResolvedByAi(1)) =>
    /\ RewrittenAs(0, RhsL1p1) =>
         HasKey(computedResults, 0) /\
         computedResults[0].value = Num(computedResults[1].value.n + 1)
    /\ (RewrittenAs(0, RhsQp1) /\ text[2] = LnQ) =>
         HasKey(computedResults, 0) /\
         computedResults[0].value = Num(computedResults[1].value.n + 1)

\* the line is `Label: expression`: a colon after a first character, no '=',
\* and not a `sum: tag` line
IsLabeledLine(line) ==
  /\ IndexOf(Trim(line), <<":">>) > 1
  /\ IndexOf(Trim(line), <<"=">>) = 0
  /\ SumMatch(stripInlineComment(Trim(line))) = <<>>

LabelOf(line) == Trim(SubSeq(Trim(line), 1, IndexOf(Trim(line), <<":">>) - 1))

\* C20: a `Label: expression` line that has a local result has its label
\* bound to the value, and its kind is 'total' when the raw line contains the
\* word "total" and 'calc' otherwise.
C20_LabeledKind ==
  evalRunning =>
    \A i \in 0..(evalI - 1) :
      (IsLabeledLine(evalText[i + 1]) /\ i \in DOMAIN evalSt.results) =>
        /\ evalSt.results[i].type =
             (IF HasWordTotal(evalText[i + 1]) THEN "total" ELSE "calc")
        /\ MapHas(evalSt.fullScope, LabelOf(evalText[i + 1]))
        /\ MapGet(evalSt.fullScope, LabelOf(evalText[i + 1])) = evalSt.results[i].value.n

\* the line is classified as an assignment (an identifier left of the first
\* '=', a non-empty right side) and its right side does not evaluate to a
\* finite number in the scopes of st
FailedAssignment(st, line) ==
  LET Rhs(exprRaw) ==
        ~IsFinite(buildEvaluator(st.mathScope,
                    preprocessExpression(substituteVariables(exprRaw, st.fullScope))))
      Split(trimmed, eqIdx) ==
        /\ eqIdx > 1
        /\ normalizeVarName(SubSeq(trimmed, 1, eqIdx - 1)) # <<>>
        /\ Trim(From(trimmed, eqIdx + 1)) # <<>>
        /\ Rhs(removeTags(stripInlineComment(From(trimmed, eqIdx + 1))))
  IN Split(Trim(line), IndexOf(Trim(line), <<"=">>))

IsCommentLine(line) == StartsWith(Trim(line), <<"/", "/">>)

\* C21: a step of the evaluateDocument loop that adds no result appends null
\* to the line values and leaves both scopes and the variable lines as they
\* were; and a line that is blank, a comment, or an assignment whose right
\* side fails adds no result (so it binds no name).
C21_FailureIsolation ==
  [][(evalRunning /\ evalI' = evalI + 1) =>
       /\ evalI \notin DOMAIN evalSt'.results =>
            /\ evalSt'.lineValues = Append(evalSt.lineValues, Null)
            /\ evalSt'.mathScope = evalSt.mathScope
            /\ evalSt'.fullScope = evalSt.fullScope
            /\ evalSt'.variableLines = evalSt.variableLines
       /\ (\/ Trim(evalText[evalI + 1]) = <<>>
           \/ IsCommentLine(evalText[evalI + 1])
           \/ FailedAssignment(evalSt, evalText[evalI + 1]))
            => evalI \notin DOMAIN evalSt'.results
    ]_vars

\* the line "4" with the tag t added in one of the two forms
TaggedFour == {Ln4t, Ln4tagT}

\* C22: the line "4" with the tag t added as `#t` or as `tag: t` has the
\* value the line "4" has alone, and a later `sum: t` line is the sum of the
\* values of the tagged lines above it.
C22_TagAnnotations ==
  evalRunning =>
    \A i \in 0..(evalI - 1) :
      evalText[i + 1] \in TaggedFour =>
        /\ i \in DOMAIN evalSt.results
        /\ evalSt.results[i].value = evaluateDocument(<<Ln4>>).results[0].value
        /\ \A j \in (i + 1)..(evalI - 1) :
             evalText[j + 1] = LnSumT =>
               evalSt.results[j].value =
                 Num(4 * Cardinality({k \in 0..(j - 1) : evalText[k + 1] \in TaggedFour}))

\* C23: the step in which a call of callLocalLLM finishes leaves loading
\* false, whatever the outcome of the call.
C23_LoadingReleased ==
  [][\A id \in DOMAIN calls :
       (calls[id].pc # "done" /\ calls'[id].pc = "done") => ~loading'
    ]_vars

\* C24: whenever saveStatus is 'saved' and no save is in flight, the stored
\* content of the current file equals the live text
C24_AutoSaveLosesNoEdit ==
  (saveStatus = "saved" /\ saving = {}) => stored.content = text

\* C25: once every addLog call issued has completed, db.logs holds at most
\* MAX_LOGS rows, whatever the interleaving of the calls at their awaits
C25_LogStoreBound ==
  (logCalls # <<>> /\ \A id \in DOMAIN logCalls : logCalls[id].pc = "done")
    => Cardinality(logs) <= MAX_LOGS

\* the callback's state with no entry for line idx, and the value an
\* evaluation has given the line
Unresolved(rs, idx) ==
  [rs EXCEPT !.finalResults = [k \in DOMAIN rs.finalResults \ {idx} |-> rs.finalResults[k]]]
GivenValue(rs, idx) ==
  IF HasKey(rs.finalResults, idx) THEN rs.finalResults[idx].value ELSE Null

\* C26: after the first pass and after every later pass, for every rewrite of
\* aiLogic the evaluation of the first merge pass and the evaluation of the
\* AI-dependency loop, on the same variable values, give the same value or
\* both give none
C26_SameEvaluation ==
  pc \in {"sums", "ai", "done"} =>
    \A idx \in DOMAIN aiLogic :
      IsRewriteItem(aiLogic[idx]) =>
        GivenValue(FirstPassLine(Unresolved(Rs, idx), text, NoResults, aiLogic, idx), idx)
          = GivenValue(AiPassLine(Unresolved(Rs, idx), text, aiLogic, idx), idx)

\* C27: the RECALCULATE SUMS loop is left after a pass in which nothing
\* changed, never because iterations reached maxIterations after a pass that
\* changed a value or a name
C27_SumLoopFixedPoint ==
  (pc = "sums" /\ iterations = maxIterations) => ~changed

\* C28: once callLocalLLM has been invoked for an empty or whitespace-only
\* text and the reconciliation has run, no result of source 'ai' (no rewrite
\* of a previous text) is applied to the empty document
C28_EmptyDocument ==
  (IsBlankText(text) /\ llmTimer = {} /\ reconTimer = {})
    => \A k \in DOMAIN computedResults : computedResults[k].source # "ai"

\* C29: at every moment after initialization the editor has at least one
\* open tab and at least one file, and exactly one tab is marked active
C29_TabsAndFiles ==
  /\ Len(tabs) >= 1
  /\ Len(files) >= 1
  /\ Cardinality({i \in DOMAIN tabs : tabs[i].active}) = 1

====
